---- MODULE Spec2Model ----
(***************************************************************************)
(* A model of the LTC3351 register API (src/LTC3351.py): named bit fields  *)
(* packed into 16-bit registers, read and written through user-supplied    *)
(* bus functions, with presets (enumerations) and formats (unit            *)
(* conversions) applied in both directions.                                *)
(*                                                                         *)
(* Python values that cross the API are tagged records:                    *)
(*   PyInt(n)      a Python int                                            *)
(*   PyStr(s)      a Python string (a preset label, or any other text)     *)
(*   PyFloat(n, d) a Python float, held as the exact rational n/d          *)
(* Float arithmetic is modelled by exact rational arithmetic; round() is   *)
(* Python 2's (halves away from zero).                                     *)
(***************************************************************************)
EXTENDS Integers, Sequences, FiniteSets, TLC

VARIABLES
    regmap,     \* LTC3351._register_map: key -> entry (shared by all instances)
    mem,        \* the device's registers behind read_function/write_function
    bus,        \* the bus calls issued by the last API call, in order
    last,       \* the last API call: what was called, how it ended, what it returned
    mem0,       \* the registers' contents at construction
    touched,    \* per command code, the bits covered by fields written so far
    nops,       \* number of API calls made so far
    pin,        \* inputs of the pure-function specifications
    pout,       \* and what the function applied to them gave
    attrs,      \* the instance's conventional attributes (its __dict__)
    thr,        \* concurrent writers: where each is in its _write_bf call
    consts,     \* LTC3351._constants (shared by all instances)
    formatters, \* LTC3351._formatters: the format registry (shared by all instances)
    chips       \* the __dict__ of each of several instances of the class

vars == <<regmap, mem, bus, last, mem0, touched, nops, pin, pout, attrs, thr,
          consts, formatters, chips>>

----------------------------------------------------------------------------
(* Bounds of the model *)

\* API calls per behaviour
MaxOps == 2

\* Pure-function inputs: how far the sampled integers reach from each end of
\* a field's range
MaxData == 2

\* Longest sampled byte list given to the checksum (besides whole transactions)
MaxBytes == 3

----------------------------------------------------------------------------
(* Python values *)

PyInt(n)      == [k |-> "int", n |-> n]
PyStr(s)      == [k |-> "str", s |-> s]
PyFloat(n, d) == [k |-> "float", n |-> n, d |-> d]

IsInt(x)  == x.k = "int"
IsNum(x)  == x.k \in {"int", "float"}

\* results of a call: a returned value, or a raised exception
Ok(v)      == [ok |-> TRUE, v |-> v]
Raise(e)   == [ok |-> FALSE, err |-> e]

APIException   == "LTC3351_APIException"
AssertionError == "AssertionError"
TypeError      == "TypeError"
BusError       == "BusError"
AttributeError == "AttributeError"

----------------------------------------------------------------------------
(* Integer bit operations on non-negative Python ints *)

Pow2(n) == 2 ^ n

Shl(a, n) == a * Pow2(n)

Shr(a, n) == a \div Pow2(n)

RECURSIVE BitAnd(_, _)
BitAnd(a, b) ==
    IF a = 0 \/ b = 0 THEN 0
    ELSE (a % 2) * (b % 2) + 2 * BitAnd(a \div 2, b \div 2)

RECURSIVE BitOr(_, _)
BitOr(a, b) ==
    IF a = 0 THEN b
    ELSE IF b = 0 THEN a
    ELSE (IF a % 2 = 1 \/ b % 2 = 1 THEN 1 ELSE 0) + 2 * BitOr(a \div 2, b \div 2)

RECURSIVE BitXor(_, _)
BitXor(a, b) ==
    IF a = 0 THEN b
    ELSE IF b = 0 THEN a
    ELSE ((a + b) % 2) + 2 * BitXor(a \div 2, b \div 2)

----------------------------------------------------------------------------
(* Static data of the class *)

\* self.word_size
word_size == 16

\* LTC3351._constants
RT == 71500
RTST == 121
CTL_CAP_SCALE_VALUE == 1

\* The modelled part of LTC3351._register_map, as declared.
RegisterMapDecl ==
    [ctl_start_cap_esr_meas |->
        [command_code |-> 0, size |-> 1, offset |-> 0, read_presets_enabled |-> TRUE,
         presets |-> << <<"start_measurement", 1>> >>,
         allowed_formats |-> {}, active_format |-> "None"],
     ctl_cap_scale |->
        [command_code |-> 0, size |-> 1, offset |-> 3, read_presets_enabled |-> TRUE,
         presets |-> << <<"large_cap", 0>>, <<"small_cap", 1>> >>,
         allowed_formats |-> {}, active_format |-> "None"],
     ctl_hotswap_disable |->
        [command_code |-> 0, size |-> 1, offset |-> 5, read_presets_enabled |-> TRUE,
         presets |-> << >>,
         allowed_formats |-> {}, active_format |-> "None"],
     ctl_reg |->
        [command_code |-> 0, size |-> 16, offset |-> 0, read_presets_enabled |-> TRUE,
         presets |-> << >>,
         allowed_formats |-> {}, active_format |-> "None"],
     vcapfb_dac |->
        [command_code |-> 3, size |-> 4, offset |-> 0, read_presets_enabled |-> TRUE,
         presets |-> << >>,
         allowed_formats |-> {"vcapfb_dac_format"}, active_format |-> "vcapfb_dac_format"],
     vshunt |->
        [command_code |-> 5, size |-> 16, offset |-> 0, read_presets_enabled |-> TRUE,
         presets |-> << >>,
         allowed_formats |-> {"cell_format"}, active_format |-> "cell_format"],
     meas_cap |->
        [command_code |-> 46, size |-> 16, offset |-> 0, read_presets_enabled |-> TRUE,
         presets |-> << >>,
         allowed_formats |-> {"cap_format", "cap_zs_format"}, active_format |-> "cap_format"]]

Fields == DOMAIN RegisterMapDecl

CommandCodes == {RegisterMapDecl[f].command_code : f \in Fields}

\* Fields whose property has a setter that calls _write_bf; the others'
\* setters raise 'Write access not allowed'.
Writable == Fields \ {"meas_cap"}

\* The key enable_read_presets stores under.
BogusKey == "bf_nameread_presets_enabled"

RECURSIVE GCD(_, _)
GCD(a, b) == IF b = 0 THEN a ELSE GCD(b, a % b)

\* A line through (0, 0) and (1, num/den), in lowest terms.
Line0(num, den, signed) ==
    [y0 |-> 0, slope |-> num \div GCD(num, den), den |-> den \div GCD(num, den),
     signed |-> signed]

\* LTC3351._xml_formats: the calibration points (0, y0/den) and
\* (1, (y0 + slope)/den) evaluated against _constants, and the signed flag.
\*   vcapfb_dac_format  0.6375 + 0.0375 x       = (51 + 3 x) / 80
\*   cell_format        182.8e-6 x              = 457 x / 2500000
\*   cap_format         (3.36e-6 + 332.64e-6 (1 - CTL_CAP_SCALE_VALUE)) RT / RTST x
\*   cap_zs_format      x
\* 'None' is the identity created by _update_xml_formatters.
XmlFormatsWith(c) ==
    [vcapfb_dac_format |-> [y0 |-> 51, slope |-> 3, den |-> 80, signed |-> FALSE],
     cell_format       |-> Line0(1828, 10000000, TRUE),
     cap_format        |-> Line0((336 + 33264 * (1 - c.CTL_CAP_SCALE_VALUE)) * (c.RT \div 100),
                                 c.RTST * 1000000, FALSE),
     cap_zs_format     |-> Line0(1, 1, TRUE)]

\* LTC3351._constants as declared (those the modelled formats use)
Constants == [RT |-> RT, RTST |-> RTST, CTL_CAP_SCALE_VALUE |-> CTL_CAP_SCALE_VALUE]

\* The registry _update_xml_formatters builds from the declared constants
XmlFormats == XmlFormatsWith(Constants)

FormatNames == DOMAIN XmlFormats \cup {"None"}

\* self._formatters[name]['signed']
FormatSigned(name) == IF name = "None" THEN FALSE ELSE formatters[name].signed

----------------------------------------------------------------------------
(* Masking and shifting *)

\* Variant: the field is masked without being shifted down.
_extract_unshifted(data, size, offset) == BitAnd(data, Shl(1, size) - 1)

\* LTC3351._extract
_extract(data, size, offset) == BitAnd(Shr(data, offset), Shl(1, size) - 1)

\* Variant: the mask is not shifted to the field's offset.
_pack_mask_unshifted(data, size, offset, old_register_contents) ==
    LET mask   == BitXor(Shl(1, word_size) - 1, Shl(1, size) - 1)
        masked == BitAnd(old_register_contents, mask)
    IN  IF data >= Shl(1, size) \/ data < 0
        THEN Raise(APIException)
        ELSE Ok(BitOr(Shl(data, offset), masked))

\* Variant: the new bits are or-ed into the old word without clearing the field.
_pack_unmasked(data, size, offset, old_register_contents) ==
    IF data >= Shl(1, size) \/ data < 0
    THEN Raise(APIException)
    ELSE Ok(BitOr(Shl(data, offset), old_register_contents))

\* LTC3351._pack: the merged word, or the exception of its range check
_pack(data, size, offset, old_register_contents) ==
    LET mask   == BitXor(Shl(1, word_size) - 1, Shl(Shl(1, size) - 1, offset))
        masked == BitAnd(old_register_contents, mask)
    IN  IF data >= Shl(1, size) \/ data < 0
        THEN Raise(APIException)
        ELSE Ok(BitOr(Shl(data, offset), masked))

----------------------------------------------------------------------------
(* Two's complement *)

\* LTC3351._signedToTwosComplement
_signedToTwosComplement(signed, bitCount) ==
    LET clamped == IF signed > Pow2(bitCount - 1) - 1 THEN Pow2(bitCount - 1) - 1
                   ELSE IF signed < -Pow2(bitCount - 1) THEN -Pow2(bitCount - 1)
                   ELSE signed
    IN  IF clamped < 0
        THEN BitAnd(clamped + Pow2(bitCount), Pow2(bitCount) - 1)
        ELSE clamped

\* Variant: the sign threshold is compared with > instead of >=.
_twosComplementToSigned_gt(binary, bitCount) ==
    IF ~(binary <= Pow2(bitCount) - 1) \/ ~(binary >= 0)
    THEN Raise(AssertionError)
    ELSE IF binary > Pow2(bitCount - 1)
         THEN Ok(binary - Pow2(bitCount))
         ELSE Ok(binary)

\* LTC3351._twosComplementToSigned
_twosComplementToSigned(binary, bitCount) ==
    IF ~(binary <= Pow2(bitCount) - 1) \/ ~(binary >= 0)
    THEN Raise(AssertionError)
    ELSE IF binary >= Pow2(bitCount - 1)
         THEN Ok(binary - Pow2(bitCount))
         ELSE Ok(binary)

----------------------------------------------------------------------------
(* The format registry *)

\* Python 2 round() of the rational p/q (q > 0), then int(): halves go away
\* from zero.
RoundHalfAway(p, q) ==
    LET m   == IF p >= 0 THEN p ELSE -p
        mag == (m \div q) + (IF 2 * (m % q) >= q THEN 1 ELSE 0)
    IN  IF p >= 0 THEN mag ELSE -mag

\* round((n * den - y0) / slope), with the product split so that it stays
\* within the integers of the model checker.
ScaledRound(n, den, y0, slope) ==
    LET m   == IF n >= 0 THEN n ELSE -n
        mag == m * (den \div slope) + RoundHalfAway(m * (den % slope), slope)
    IN  IF y0 # 0 THEN RoundHalfAway(n * den - y0, slope)
        ELSE IF n >= 0 THEN mag ELSE -mag

\* Variant: the line is taken through the origin, dropping the first
\* calibration point's value.
format_function_no_intercept(name, x) ==
    IF name = "None" THEN PyInt(x)
    ELSE PyFloat(x * formatters[name].slope, formatters[name].den)

\* self._formatters[name]['format']: the identity for 'None', else the line
\* through the calibration points evaluated at the integer x, as a float.
format_function(name, x) ==
    IF name = "None" THEN PyInt(x)
    ELSE LET f == formatters[name]
         IN  PyFloat(f.y0 + x * f.slope, f.den)

\* self._formatters[name]['unformat']: the identity for 'None', else the
\* inverse line evaluated at the number v, rounded to an int; text is not
\* accepted by the interpolation.
unformat_function(name, v) ==
    IF name = "None" THEN Ok(v)
    ELSE LET f == formatters[name]
         IN  IF ~IsNum(v) THEN Raise(TypeError)
             ELSE IF IsInt(v)
                  THEN Ok(PyInt(ScaledRound(v.n, f.den, f.y0, f.slope)))
             ELSE IF v.d = f.den
                  THEN Ok(PyInt(RoundHalfAway(v.n - f.y0, f.slope)))
             ELSE Ok(PyInt(RoundHalfAway(v.n * f.den - f.y0 * v.d, f.slope * v.d)))

\* The index of the first (label, value) pair of the sequence whose
\* component `col` equals x, or 0: the loop `for (preset,value) in presets`.
FirstPreset(presets, col, x) ==
    LET hits == {i \in 1..Len(presets) : presets[i][col] = x}
    IN  IF hits = {} THEN 0 ELSE CHOOSE i \in hits : \A j \in hits : i <= j

\* Variant: presets are never looked up on read.
_format_no_presets(rm, bf_name, data) ==
    LET e == rm[bf_name]
    IN  IF FormatSigned(e.active_format)
        THEN LET s == _twosComplementToSigned(data, e.size)
             IN  IF s.ok THEN Ok(format_function(e.active_format, s.v)) ELSE s
        ELSE Ok(format_function(e.active_format, data))

\* LTC3351._format: raw field contents to the value handed to the caller
_format(rm, bf_name, data) ==
    LET e == rm[bf_name]
        hit == IF e.read_presets_enabled THEN FirstPreset(e.presets, 2, data) ELSE 0
    IN  IF hit # 0 THEN Ok(PyStr(e.presets[hit][1]))
        ELSE IF FormatSigned(e.active_format)
             THEN LET s == _twosComplementToSigned(data, e.size)
                  IN  IF s.ok THEN Ok(format_function(e.active_format, s.v)) ELSE s
             ELSE Ok(format_function(e.active_format, data))

\* Variant: preset labels are not looked up on write.
_unformat_no_presets(rm, bf_name, data) ==
    LET e == rm[bf_name]
        u == unformat_function(e.active_format, data)
    IN  IF ~u.ok THEN u
        ELSE IF ~IsInt(u.v) THEN Raise(AssertionError)
        ELSE IF FormatSigned(e.active_format)
             THEN Ok(_signedToTwosComplement(u.v.n, e.size))
        ELSE IF u.v.n < 0 THEN Ok(0)
        ELSE IF u.v.n > Pow2(e.size) - 1 THEN Ok(Pow2(e.size) - 1)
        ELSE Ok(u.v.n)

\* Variant: an unsigned result above the field's range is not clamped.
_unformat_no_upper_clamp(rm, bf_name, data) ==
    LET e == rm[bf_name]
        hit == IF data.k = "str" THEN FirstPreset(e.presets, 1, data.s) ELSE 0
        u == unformat_function(e.active_format, data)
    IN  IF hit # 0 THEN Ok(e.presets[hit][2])
        ELSE IF ~u.ok THEN u
        ELSE IF ~IsInt(u.v) THEN Raise(AssertionError)
        ELSE IF FormatSigned(e.active_format)
             THEN Ok(_signedToTwosComplement(u.v.n, e.size))
        ELSE IF u.v.n < 0 THEN Ok(0)
        ELSE Ok(u.v.n)

\* LTC3351._unformat: the caller's value to the integer to be packed
_unformat(rm, bf_name, data) ==
    LET e == rm[bf_name]
        hit == IF data.k = "str" THEN FirstPreset(e.presets, 1, data.s) ELSE 0
        u == unformat_function(e.active_format, data)
    IN  IF hit # 0 THEN Ok(e.presets[hit][2])
        ELSE IF ~u.ok THEN u
        ELSE IF ~IsInt(u.v) THEN Raise(AssertionError)
        ELSE IF FormatSigned(e.active_format)
             THEN Ok(_signedToTwosComplement(u.v.n, e.size))
        ELSE IF u.v.n < 0 THEN Ok(0)
        ELSE IF u.v.n > Pow2(e.size) - 1 THEN Ok(Pow2(e.size) - 1)
        ELSE Ok(u.v.n)

----------------------------------------------------------------------------
(* Field access *)

PyNone == [k |-> "None"]
PyBool(b) == [k |-> "bool", b |-> b]
PyFunction == [k |-> "function"]
PyDict(d) == [k |-> "dict", d |-> d]

BusRead(cmd, data, ok)  == [op |-> "read", cmd |-> cmd, data |-> data, ok |-> ok]
BusWrite(cmd, data, ok) == [op |-> "write", cmd |-> cmd, data |-> data, ok |-> ok]

\* The bits of a register a field covers.
FieldMask(e) == Shl(Shl(1, e.size) - 1, e.offset)

\* LTC3351._read_bf: one read_function call, then _extract and _format.
\* fail = "read": read_function raises.
_read_bf(rm, m, bf_name, fail) ==
    LET e == rm[bf_name]
        raw == m[e.command_code]
    IN  IF fail = "read"
        THEN [res |-> Raise(BusError), bus |-> <<BusRead(e.command_code, raw, FALSE)>>]
        ELSE [res |-> _format(rm, bf_name, _extract(raw, e.size, e.offset)),
              bus |-> <<BusRead(e.command_code, raw, TRUE)>>]

\* Variant: the register is read, and written back, before the value is
\* converted.
_write_bf_read_first(rm, m, bf_name, data, fail) ==
    LET e   == rm[bf_name]
        cmd == e.command_code
        u   == _unformat(rm, bf_name, data)
        old == m[cmd]
        p   == _pack(u.v, e.size, e.offset, old)
    IN  IF ~u.ok
        THEN [res |-> u, bus |-> <<BusRead(cmd, old, TRUE), BusWrite(cmd, old, TRUE)>>,
              mem |-> m]
        ELSE IF ~p.ok THEN [res |-> p, bus |-> <<BusRead(cmd, old, TRUE)>>, mem |-> m]
        ELSE [res |-> Ok(PyNone),
              bus |-> <<BusRead(cmd, old, TRUE), BusWrite(cmd, p.v, TRUE)>>,
              mem |-> [m EXCEPT ![cmd] = p.v]]

\* Variant: every write, full-width ones too, is a read-modify-write.
_write_bf_always_rmw(rm, m, bf_name, data, fail) ==
    LET e   == rm[bf_name]
        cmd == e.command_code
        u   == _unformat(rm, bf_name, data)
        old == m[cmd]
        p   == _pack(u.v, e.size, e.offset, old)
    IN  IF ~u.ok THEN [res |-> u, bus |-> << >>, mem |-> m]
        ELSE IF ~p.ok THEN [res |-> p, bus |-> <<BusRead(cmd, old, TRUE)>>, mem |-> m]
        ELSE [res |-> Ok(PyNone),
              bus |-> <<BusRead(cmd, old, TRUE), BusWrite(cmd, p.v, TRUE)>>,
              mem |-> [m EXCEPT ![cmd] = p.v]]

\* LTC3351._write_bf.  Python evaluates the arguments of the read-modify-write
\* call left to right: _unformat, then read_function, then _pack, and only
\* then write_function.  fail = "read"/"write": that bus function raises.
\* The result: how the call ended, the bus calls it made, the registers after.
_write_bf(rm, m, bf_name, data, fail) ==
    LET e   == rm[bf_name]
        cmd == e.command_code
        u   == _unformat(rm, bf_name, data)
        old == m[cmd]
        p   == _pack(u.v, e.size, e.offset, old)
        Done(res, b, word) ==
            [res |-> res, bus |-> b,
             mem |-> IF res.ok THEN [m EXCEPT ![cmd] = word] ELSE m]
    IN  IF e.size = word_size
        THEN IF ~u.ok THEN Done(u, << >>, 0)
             ELSE IF u.v >= Shl(1, word_size) \/ u.v < 0
                  THEN Done(Raise(APIException), << >>, 0)
             ELSE IF fail = "write"
                  THEN Done(Raise(BusError), <<BusWrite(cmd, u.v, FALSE)>>, 0)
             ELSE Done(Ok(PyNone), <<BusWrite(cmd, u.v, TRUE)>>, u.v)
        ELSE IF ~u.ok THEN Done(u, << >>, 0)
             ELSE IF fail = "read"
                  THEN Done(Raise(BusError), <<BusRead(cmd, old, FALSE)>>, 0)
             ELSE IF ~p.ok
                  THEN Done(p, <<BusRead(cmd, old, TRUE)>>, 0)
             ELSE IF fail = "write"
                  THEN Done(Raise(BusError),
                            <<BusRead(cmd, old, TRUE), BusWrite(cmd, p.v, FALSE)>>, 0)
             ELSE Done(Ok(PyNone),
                       <<BusRead(cmd, old, TRUE), BusWrite(cmd, p.v, TRUE)>>, p.v)

----------------------------------------------------------------------------
(* Inputs *)

\* Register contents at construction.
InitWords == {42405, 23130}      \* 0xA5A5, 0x5A5A

\* How a bus function may behave during one API call: as it should, or
\* read_function raises, or write_function raises.
BusFaults == {"none", "read", "write"}

\* Values a caller may assign to a field: integers in and out of the field's
\* range, the field's preset labels, other text, and floats.
WriteValues(bf_name) ==
    LET size == RegisterMapDecl[bf_name].size
    IN  IF bf_name \notin Writable THEN {PyInt(0), PyFloat(1, 2)}
        ELSE {PyInt(n) : n \in {-1, 0, 1, Pow2(size) - 1, Pow2(size)}}
             \cup {PyStr(RegisterMapDecl[bf_name].presets[i][1]) :
                      i \in 1..Len(RegisterMapDecl[bf_name].presets)}
             \cup {PyStr("volts")}
             \cup (IF bf_name = "vcapfb_dac"
                   THEN {PyFloat(27, 40), PyFloat(33, 32), PyFloat(3, 1)}
                   ELSE IF bf_name = "vshunt"
                   THEN {PyFloat(27, 10), PyFloat(-914, 2500000), PyFloat(7, 1),
                         PyFloat(-7, 1)}
                   ELSE {PyFloat(1, 2)})

\* The (value, bus fault) pairs tried for a write: every value with the bus
\* working, and one in-range value with each bus function failing.
WriteCalls(bf_name) ==
    {<<v, "none">> : v \in WriteValues(bf_name)}
    \cup (IF bf_name \in Writable
          THEN {<<PyInt(1), ft>> : ft \in BusFaults \ {"none"}}
          ELSE {})

\* The format_name arguments a caller may pass to set_active_format: format
\* names as text, and the object None (written NoneArg here).
NoneArg == "<None>"

\* The (format_name, force) arguments tried.
FormatCalls ==
    {<<"NONE", FALSE>>, <<NoneArg, FALSE>>, <<"cell_format", FALSE>>,
     <<"cell_format", TRUE>>, <<"cap_zs_format", FALSE>>}

Lower(name) == IF name \in {"None", "none", "NONE"} THEN "none" ELSE name

\* Names a caller may assign to that are not bit fields: a conventional
\* instance attribute, a method and a class attribute of LTC3351, and names
\* defined nowhere (a misspelt field, the stray register-map key).
InstanceAttrs == {"verbose", "read_function", "write_function", "addr_7bit", "word_size"}
ClassNames    == {"get_status", "_register_map"}
OtherNames    == {"verbose", "get_status", "_register_map", "vshnt", BogusKey}

\* Several instances of the class, on one bus.
Chips == {"chip1", "chip2"}

\* Two callers sharing one instance.
Writers == {"A", "B"}
Idle == [pc |-> "idle", bf |-> "", data |-> PyNone, raw |-> 0, old |-> 0]

----------------------------------------------------------------------------
(* The API calls *)

Call(op, bf_name, arg, res) == [op |-> op, bf |-> bf_name, arg |-> arg, res |-> res]

Init ==
    /\ regmap = RegisterMapDecl
    /\ \E w \in InitWords : mem = [c \in CommandCodes |-> w]
    /\ mem0 = mem
    /\ touched = [c \in CommandCodes |-> 0]
    /\ bus = << >>
    /\ last = Call("init", "", PyNone, Ok(PyNone))
    /\ nops = 0
    /\ pin = [fn |-> "none"]
    /\ pout = [fn |-> "none"]
    /\ attrs = [verbose |-> PyBool(FALSE), read_function |-> PyFunction,
                write_function |-> PyFunction, addr_7bit |-> PyInt(9),
                word_size |-> PyInt(word_size)]
    /\ thr = [w \in Writers |-> Idle]
    /\ consts = Constants
    /\ formatters = XmlFormats
    /\ chips = [i \in Chips |-> attrs]

\* chip.<bf_name>: the property getter
Read(bf_name, fail) ==
    LET r == _read_bf(regmap, mem, bf_name, fail)
    IN  /\ nops < MaxOps
        /\ nops' = nops + 1
        /\ bus' = r.bus
        /\ last' = Call("read", bf_name, PyNone, r.res)
        /\ UNCHANGED <<regmap, mem, mem0, touched, pin, pout, attrs, thr, consts, formatters, chips>>

\* chip.<bf_name> = data: __setattr__, then the property setter
Write(bf_name, data, fail) ==
    LET r == IF bf_name \in Writable
             THEN _write_bf(regmap, mem, bf_name, data, fail)
             ELSE [res |-> Raise(APIException), bus |-> << >>, mem |-> mem]
        cmd == regmap[bf_name].command_code
    IN  /\ nops < MaxOps
        /\ nops' = nops + 1
        /\ bus' = r.bus
        /\ mem' = r.mem
        /\ touched' = IF r.res.ok
                      THEN [touched EXCEPT ![cmd] = BitOr(@, FieldMask(regmap[bf_name]))]
                      ELSE touched
        /\ last' = Call("write", bf_name, data, r.res)
        /\ UNCHANGED <<regmap, mem0, pin, pout, attrs, thr, consts, formatters, chips>>

\* LTC3351.set_active_format
SetActiveFormat(bf_name, format_name, force) ==
    LET none == format_name = NoneArg \/ Lower(format_name) = "none"
        allowed == format_name \in regmap[bf_name].allowed_formats \/ force
    IN  /\ nops < MaxOps
        /\ nops' = nops + 1
        /\ bus' = << >>
        /\ regmap' = IF none THEN [regmap EXCEPT ![bf_name].active_format = "None"]
                     ELSE IF allowed
                          THEN [regmap EXCEPT ![bf_name].active_format = format_name]
                     ELSE regmap
        /\ last' = Call("set_active_format", bf_name, <<format_name, force>>,
                        IF none \/ allowed THEN Ok(PyNone) ELSE Raise(APIException))
        /\ UNCHANGED <<mem, mem0, touched, pin, pout, attrs, thr, consts, formatters, chips>>

\* LTC3351.enable_read_presets: the assignment stores `enabled` under the
\* literal key 'bf_nameread_presets_enabled' of the register map.
enable_read_presets(rm, bf_name, enabled) ==
    [k \in DOMAIN rm \cup {BogusKey} |-> IF k = BogusKey THEN enabled ELSE rm[k]]

EnableReadPresets(bf_name, enabled) ==
    /\ nops < MaxOps
    /\ nops' = nops + 1
    /\ bus' = << >>
    /\ regmap' = enable_read_presets(regmap, bf_name, enabled)
    /\ last' = Call("enable_read_presets", bf_name, enabled, Ok(PyNone))
    /\ UNCHANGED <<mem, mem0, touched, pin, pout, attrs, thr, consts, formatters, chips>>

\* LTC3351.disable_read_presets
DisableReadPresets(bf_name) ==
    /\ nops < MaxOps
    /\ nops' = nops + 1
    /\ bus' = << >>
    /\ regmap' = enable_read_presets(regmap, bf_name, FALSE)
    /\ last' = Call("disable_read_presets", bf_name, PyNone, Ok(PyNone))
    /\ UNCHANGED <<mem, mem0, touched, pin, pout, attrs, thr, consts, formatters, chips>>

\* LTC3351.disable_binary_read_presets: len() of the integer 'size' of the
\* first entry visited (or the subscript of the boolean stored under the
\* stray key) raises TypeError before any entry is changed.
DisableBinaryReadPresets ==
    /\ nops < MaxOps
    /\ nops' = nops + 1
    /\ bus' = << >>
    /\ last' = Call("disable_binary_read_presets", "", PyNone, Raise(TypeError))
    /\ UNCHANGED <<regmap, mem, mem0, touched, pin, pout, attrs, thr, consts, formatters, chips>>

\* LTC3351.disable_presets_and_formats: every entry loses its presets and its
\* format.  With the stray boolean among the dictionary's values the loop
\* raises TypeError when it reaches it; the entries visited before it (the
\* dictionary's order is not specified) are already changed.
DisablePresetsAndFormats ==
    /\ nops < MaxOps
    /\ nops' = nops + 1
    /\ bus' = << >>
    /\ \E done \in (IF BogusKey \in DOMAIN regmap THEN SUBSET Fields ELSE {Fields}) :
          regmap' = [k \in DOMAIN regmap |->
                        IF k \in done
                        THEN [regmap[k] EXCEPT !.presets = << >>, !.active_format = "None"]
                        ELSE regmap[k]]
    /\ last' = Call("disable_presets_and_formats", "", PyNone,
                    IF BogusKey \in DOMAIN regmap THEN Raise(TypeError) ELSE Ok(PyNone))
    /\ UNCHANGED <<mem, mem0, touched, pin, pout, attrs, thr, consts, formatters, chips>>

\* Variant: a name defined nowhere becomes a new instance attribute.
SetAttr_creates(name, value) ==
    /\ nops < MaxOps
    /\ nops' = nops + 1
    /\ bus' = << >>
    /\ attrs' = [n \in DOMAIN attrs \cup {name} |-> IF n = name THEN value ELSE attrs[n]]
    /\ last' = Call("setattr", name, value, Ok(PyNone))
    /\ UNCHANGED <<regmap, mem, mem0, touched, pin, pout, thr, consts, formatters, chips>>

\* chip.<name> = value for a name that is no bit field: __setattr__.
\* LTC3351.__dict__[name] of a method or class attribute is found and has no
\* fset (AttributeError, which nothing catches); for any other name it raises
\* KeyError, and then an instance attribute whose value is not None is
\* rebound, and everything else is refused.
SetAttr(name, value) ==
    LET res == IF name \in ClassNames THEN Raise(AttributeError)
               ELSE IF name \in InstanceAttrs /\ attrs[name] # PyNone THEN Ok(PyNone)
               ELSE Raise(APIException)
    IN  /\ nops < MaxOps
        /\ nops' = nops + 1
        /\ bus' = << >>
        /\ attrs' = IF res.ok THEN [attrs EXCEPT ![name] = value] ELSE attrs
        /\ last' = Call("setattr", name, value, res)
        /\ UNCHANGED <<regmap, mem, mem0, touched, pin, pout, thr, consts, formatters, chips>>

\* self[k] inside get_status: getattr(self, k).  A key of the register map
\* that names no property (the stray key) raises AttributeError.
StatusItem(rm, m, k, fail) ==
    IF k \notin Fields
    THEN [res |-> Raise(AttributeError), bus |-> << >>]
    ELSE _read_bf(rm, m, k, fail)

\* LTC3351.get_status: the loop over the keys.  Only LTC3351_APIException is
\* caught; any other exception ends the loop and the call.  failKey: the field
\* at whose read read_function raises ("" for none).
RECURSIVE get_status(_, _, _, _, _, _)
get_status(rm, m, keys, failKey, ret_dict, b) ==
    IF keys = << >> THEN [res |-> Ok(PyDict(ret_dict)), bus |-> b]
    ELSE LET k == Head(keys)
             r == StatusItem(rm, m, k, IF k = failKey THEN "read" ELSE "none")
         IN  IF r.res.ok
             THEN get_status(rm, m, Tail(keys), failKey,
                             [x \in DOMAIN ret_dict \cup {k} |->
                                 IF x = k THEN r.res.v ELSE ret_dict[x]],
                             b \o r.bus)
             ELSE IF r.res.err = APIException
             THEN get_status(rm, m, Tail(keys), failKey, ret_dict, b \o r.bus)
             ELSE [res |-> r.res, bus |-> b \o r.bus]

\* The order in which the register map's keys are visited (one order stands
\* for the dictionary's); the stray key, when present, may come anywhere.
KeyOrder ==
    <<"ctl_start_cap_esr_meas", "ctl_cap_scale", "ctl_hotswap_disable", "ctl_reg",
      "vcapfb_dac", "vshunt", "meas_cap">>

Keys(rm, p) ==
    IF BogusKey \in DOMAIN rm
    THEN SubSeq(KeyOrder, 1, p) \o <<BogusKey>> \o SubSeq(KeyOrder, p + 1, Len(KeyOrder))
    ELSE KeyOrder

GetStatus ==
    /\ nops < MaxOps
    /\ nops' = nops + 1
    /\ \E failKey \in Fields \cup {""} :
       \E p \in (IF BogusKey \in DOMAIN regmap THEN 0..Len(KeyOrder) ELSE {0}) :
          LET r == get_status(regmap, mem, Keys(regmap, p), failKey,
                              [x \in {} |-> PyNone], << >>)
          IN  /\ bus' = r.bus
              /\ last' = Call("get_status", "", PyNone, r.res)
    /\ UNCHANGED <<regmap, mem, mem0, touched, pin, pout, attrs, thr, consts, formatters, chips>>

\* The values tried for an assignment to a name that is no bit field.
AttrValues == {PyBool(TRUE), PyNone}

Next ==
    \/ \E f \in Fields, fail \in BusFaults \ {"write"} : Read(f, fail)
    \/ \E f \in Fields : \E c \in WriteCalls(f) : Write(f, c[1], c[2])
    \/ \E f \in Fields, c \in FormatCalls : SetActiveFormat(f, c[1], c[2])
    \/ \E f \in Fields, en \in BOOLEAN : EnableReadPresets(f, en)
    \/ \E f \in Fields : DisableReadPresets(f)
    \/ DisableBinaryReadPresets
    \/ DisablePresetsAndFormats
    \/ \E name \in OtherNames, value \in AttrValues : SetAttr(name, value)
    \/ GetStatus

Spec == Init /\ [][Next]_vars

----------------------------------------------------------------------------
(* The DC590B / Linduino transport (class ltc_dc590b_interface).  Text on  *)
(* the serial link is a sequence of one-character strings.  Python's        *)
(* unbounded integers, where the code lets them grow, are sequences of bits *)
(* (least significant first).                                               *)

ValueError         == "ValueError"
\* The Exception messages the transport raises, by their distinguishing words
ShortResponse      == "Short response"
FailedAcknowledge  == "failed acknowledge"
DetectionFailed    == "EEPROM detection failed, communications disabled"
LongResponse       == "Long response"
FailedPEC          == "failed PEC"
UnexpectedResponse == "Response from write command"

HexChars == <<"0", "1", "2", "3", "4", "5", "6", "7",
              "8", "9", "A", "B", "C", "D", "E", "F">>

IsHex(c) == \E i \in 1..16 : HexChars[i] = c

HexVal(c) == (CHOOSE i \in 1..16 : HexChars[i] = c) - 1

RECURSIVE HexDigits(_)
HexDigits(n) ==
    IF n < 16 THEN <<HexChars[n + 1]>>
    ELSE HexDigits(n \div 16) \o <<HexChars[(n % 16) + 1]>>

\* ltc_dc590b_interface._hex_str, for integers >= 0: upper-case hex digits,
\* padded on the left to two (and longer than two from 0x100 on).
_hex_str(integer) ==
    IF Len(HexDigits(integer)) < 2 THEN <<"0">> \o HexDigits(integer)
    ELSE HexDigits(integer)

\* int(text, 16) of text made of hex digits and sentinel characters.
RECURSIVE int16(_)
int16(text) ==
    IF \E i \in 1..Len(text) : ~IsHex(text[i]) THEN Raise(ValueError)
    ELSE IF Len(text) = 0 THEN Raise(ValueError)
    ELSE IF Len(text) = 1 THEN Ok(HexVal(text[1]))
    ELSE Ok(16 * int16(SubSeq(text, 1, Len(text) - 1)).v + HexVal(text[Len(text)]))

_read_addr(addr_7bit)  == Shl(addr_7bit, 1) + 1
_write_addr(addr_7bit) == Shl(addr_7bit, 1)
\* Variant: the first byte is the high one.
_word_big_endian(low_byte, high_byte) == Shl(BitAnd(low_byte, 255), 8) + BitAnd(high_byte, 255)

_word(low_byte, high_byte) == Shl(BitAnd(high_byte, 255), 8) + BitAnd(low_byte, 255)
_low_byte(data16)  == BitAnd(data16, 255)
_high_byte(data16) == Shr(data16, 8)

\* Bit i (from 0) of an unbounded integer held as bits
BitOf(crc, i) == IF i + 1 <= Len(crc) THEN crc[i + 1] ELSE 0

\* crc ^= v, for an integer v < 2^16
XorInto(crc, v) ==
    LET n == IF Len(crc) > 16 THEN Len(crc) ELSE 16
    IN  SubSeq([i \in 1..n |->
                  (BitOf(crc, i - 1) + (IF i <= 16 THEN (v \div Pow2(i - 1)) % 2 ELSE 0)) % 2],
               1, n)

\* for cycle in range(n): crc <<= 1; if crc & 0x100: crc ^= poly
RECURSIVE PecCycles(_, _, _)
PecCycles(crc, n, poly) ==
    IF n = 0 THEN crc
    ELSE LET shifted == <<0>> \o crc
         IN  IF BitOf(shifted, 8) = 1
             THEN PecCycles(XorInto(shifted, poly), n - 1, poly)
             ELSE PecCycles(shifted, n - 1, poly)

\* for byte in byteList: crc ^= byte; the 8 cycles (from the i-th byte on)
RECURSIVE PecBytes(_, _, _, _)
PecBytes(crc, bytes, i, poly) ==
    IF i > Len(bytes) THEN crc
    ELSE PecBytes(PecCycles(XorInto(crc, bytes[i]), 8, poly), bytes, i + 1, poly)

\* crc & 0xFF
Low8(crc) ==
    BitOf(crc, 0) + 2 * BitOf(crc, 1) + 4 * BitOf(crc, 2) + 8 * BitOf(crc, 3)
    + 16 * BitOf(crc, 4) + 32 * BitOf(crc, 5) + 64 * BitOf(crc, 6) + 128 * BitOf(crc, 7)

\* Variant: another generator polynomial (0x1D).
_pec_poly_1d(bytes) == Low8(PecBytes(<< >>, bytes, 1, 29))

\* ltc_dc590b_interface._pec.  The register is never cut to 8 bits inside the
\* loop; only the returned value is.
_pec(bytes) == Low8(PecBytes(<< >>, bytes, 1, 7))

\* What the serial port hands to one call: rx, the characters that arrive in
\* time for its first read; late, those that arrive after it has looked.
Take(text, n) == SubSeq(text, 1, IF Len(text) < n THEN Len(text) ELSE n)
Drop(text, n) == SubSeq(text, n + 1, Len(text))
Has(text, c)  == \E i \in 1..Len(text) : text[i] = c

\* 'S{}' of a format string
S(byte) == <<"S">> \o _hex_str(byte)

\* How a primitive ended: the strings it wrote to the port, its result, the
\* response it read, the extra characters it read and dropped, and what it
\* left unread in the port.
Ended(write_str, res, ret_str, ret_extra, left) ==
    [writes |-> <<write_str>>, res |-> res, ret_str |-> ret_str,
     ret_extra |-> ret_extra, left |-> left]

\* Variant: the bridge-off-line test comes first.
Sentinels_x_first(write_str, ret_str, n, ch, value) ==
    IF Has(ret_str, "X")
    THEN Ended(write_str, Raise(DetectionFailed), ret_str, Drop(ch.rx, n) \o ch.late, << >>)
    ELSE IF Has(ret_str, "N")
    THEN Ended(write_str, Raise(FailedAcknowledge), ret_str, Drop(ch.rx, n) \o ch.late, << >>)
    ELSE IF Len(Drop(ch.rx, n)) # 0
    THEN Ended(write_str, Raise(LongResponse), ret_str, Drop(ch.rx, n) \o ch.late, << >>)
    ELSE Ended(write_str, value, ret_str, << >>, ch.late)

\* The tail shared by the word and byte reads, after the length check:
\* not-acknowledged, bridge off line, long response, in that order.
Sentinels(write_str, ret_str, n, ch, value) ==
    IF Has(ret_str, "N")
    THEN Ended(write_str, Raise(FailedAcknowledge), ret_str, Drop(ch.rx, n) \o ch.late, << >>)
    ELSE IF Has(ret_str, "X")
    THEN Ended(write_str, Raise(DetectionFailed), ret_str, Drop(ch.rx, n) \o ch.late, << >>)
    ELSE IF Len(Drop(ch.rx, n)) # 0
    THEN Ended(write_str, Raise(LongResponse), ret_str, Drop(ch.rx, n) \o ch.late, << >>)
    ELSE Ended(write_str, value, ret_str, << >>, ch.late)

\* The tail of the receive-byte reads: long response only.
LongOnly(write_str, ret_str, n, ch, value) ==
    IF Len(Drop(ch.rx, n)) # 0
    THEN Ended(write_str, Raise(LongResponse), ret_str, Drop(ch.rx, n) \o ch.late, << >>)
    ELSE Ended(write_str, value, ret_str, << >>, ch.late)

Written_resend(write_str, ch) ==
    IF Len(ch.rx) # 0
    THEN [writes |-> <<write_str, write_str>>, res |-> Ok(PyNone), ret_str |-> ch.rx,
          ret_extra |-> << >>, left |-> ch.late]
    ELSE Ended(write_str, Ok(PyNone), ch.rx, << >>, ch.late)

\* The body shared by the write primitives: any response at all is an error.
Written(write_str, ch) ==
    IF Len(ch.rx) # 0
    THEN Ended(write_str, Raise(UnexpectedResponse), ch.rx, << >>, ch.late)
    ELSE Ended(write_str, Ok(PyNone), ch.rx, << >>, ch.late)

\* int(ret_str[a:b], 16) as a result value
Byte(ret_str, a, b) ==
    IF int16(SubSeq(ret_str, a + 1, b)).ok
    THEN Ok(PyInt(int16(SubSeq(ret_str, a + 1, b)).v))
    ELSE Raise(ValueError)

_read_word_nopec(addr_7bit, command_code, ch) ==
    LET byteList  == <<_write_addr(addr_7bit), command_code, _read_addr(addr_7bit)>>
        write_str == <<"s">> \o S(byteList[1]) \o S(byteList[2]) \o <<"s">>
                     \o S(byteList[3]) \o <<"Q", "R", "p">>
        ret_str   == Take(ch.rx, 4)
        lo        == int16(SubSeq(ret_str, 1, 2))
        hi        == int16(SubSeq(ret_str, 3, 4))
    IN  IF Len(ret_str) # 4
        THEN Ended(write_str, Raise(ShortResponse), ret_str, << >>, ch.late)
        ELSE Sentinels(write_str, ret_str, 4, ch,
                       IF lo.ok /\ hi.ok THEN Ok(PyInt(_word(lo.v, hi.v)))
                       ELSE Raise(ValueError))

_write_word_nopec(addr_7bit, command_code, data16, ch) ==
    LET byteList == <<_write_addr(addr_7bit), command_code,
                      _low_byte(data16), _high_byte(data16)>>
    IN  Written(<<"s">> \o S(byteList[1]) \o S(byteList[2]) \o S(byteList[3])
                \o S(byteList[4]) \o <<"p">>, ch)

_read_byte_nopec(addr_7bit, command_code, ch) ==
    LET byteList  == <<_write_addr(addr_7bit), command_code, _read_addr(addr_7bit)>>
        write_str == <<"s">> \o S(byteList[1]) \o S(byteList[2]) \o <<"s">>
                     \o S(byteList[3]) \o <<"R", "p">>
        ret_str   == Take(ch.rx, 2)
    IN  IF Len(ret_str) # 2
        THEN Ended(write_str, Raise(ShortResponse), ret_str, << >>, ch.late)
        ELSE Sentinels(write_str, ret_str, 2, ch, Byte(ret_str, 0, 2))

_write_byte_nopec(addr_7bit, command_code, data8, ch) ==
    LET byteList == <<_write_addr(addr_7bit), command_code, data8>>
    IN  Written(<<"s">> \o S(byteList[1]) \o S(byteList[2]) \o S(byteList[3])
                \o <<"p">>, ch)

_receive_byte_nopec(addr_7bit, ch) ==
    LET write_str == <<"s">> \o S(_read_addr(addr_7bit)) \o <<"R", "p">>
        ret_str   == Take(ch.rx, 2)
    IN  IF Len(ret_str) # 2
        THEN Ended(write_str, Raise(ShortResponse), ret_str, << >>, ch.late)
        ELSE LongOnly(write_str, ret_str, 2, ch, Byte(ret_str, 0, 2))

_send_byte_nopec(addr_7bit, data8, ch) ==
    LET byteList == <<_write_addr(addr_7bit), data8>>
    IN  Written(<<"s">> \o S(byteList[1]) \o S(byteList[2]) \o <<"p">>, ch)

Address7_unshifted(ret_str, a, b) ==
    IF int16(SubSeq(ret_str, a + 1, b)).ok
    THEN Ok(PyInt(int16(SubSeq(ret_str, a + 1, b)).v))
    ELSE Raise(ValueError)

\* int(ret_str[a:b], 16) >> 1 as a result value
Address7(ret_str, a, b) ==
    IF int16(SubSeq(ret_str, a + 1, b)).ok
    THEN Ok(PyInt(Shr(int16(SubSeq(ret_str, a + 1, b)).v, 1)))
    ELSE Raise(ValueError)

_alert_response_nopec(ch) ==
    LET write_str == <<"s">> \o S(_read_addr(12)) \o <<"R", "p">>
        ret_str   == Take(ch.rx, 2)
        waiting   == Len(Drop(ch.rx, 2)) # 0
        ret_extra == IF waiting THEN Drop(ch.rx, 2) \o ch.late ELSE << >>
        left      == IF waiting THEN << >> ELSE ch.late
    IN  IF Len(ret_str) # 2
        THEN Ended(write_str, Raise(ShortResponse), ret_str, << >>, ch.late)
        ELSE IF waiting /\ ret_str[1] # "N"
        THEN Ended(write_str, Raise(LongResponse), ret_str, ret_extra, left)
        ELSE IF ret_str[1] = "N"
        THEN Ended(write_str, Ok(PyNone), ret_str, ret_extra, left)
        ELSE Ended(write_str, Address7(ret_str, 0, 2), ret_str, ret_extra, left)

\* The head shared by the checked reads, after the length check: the data
\* bytes and then the checksum byte are parsed (ValueError on anything that
\* is no hex digit), and the checksum is compared.  `sent` are the bytes
\* transmitted, n the response length, `then` what follows a good checksum.
Checked(write_str, sent, ret_str, n, ch, then) ==
    LET data == [i \in 1..((n \div 2) - 1) |-> int16(SubSeq(ret_str, 2 * i - 1, 2 * i))]
        pec  == int16(SubSeq(ret_str, n - 1, n))
    IN  IF (\E i \in DOMAIN data : ~data[i].ok) \/ ~pec.ok
        THEN Ended(write_str, Raise(ValueError), ret_str, << >>, Drop(ch.rx, n) \o ch.late)
        ELSE IF pec.v # _pec(sent \o [i \in DOMAIN data |-> data[i].v])
        THEN Ended(write_str, Raise(FailedPEC), ret_str, << >>, Drop(ch.rx, n) \o ch.late)
        ELSE then

_read_word_pec(addr_7bit, command_code, ch) ==
    LET byteList  == <<_write_addr(addr_7bit), command_code, _read_addr(addr_7bit)>>
        write_str == <<"s">> \o S(byteList[1]) \o S(byteList[2]) \o <<"s">>
                     \o S(byteList[3]) \o <<"Q", "Q", "R", "p">>
        ret_str   == Take(ch.rx, 6)
    IN  IF Len(ret_str) # 6
        THEN Ended(write_str, Raise(ShortResponse), ret_str, << >>, ch.late)
        ELSE Checked(write_str, byteList, ret_str, 6, ch,
                Sentinels(write_str, ret_str, 6, ch,
                    Ok(PyInt(_word(int16(SubSeq(ret_str, 1, 2)).v,
                                   int16(SubSeq(ret_str, 3, 4)).v)))))

_write_word_pec(addr_7bit, command_code, data16, ch) ==
    LET byteList == <<_write_addr(addr_7bit), command_code,
                      _low_byte(data16), _high_byte(data16)>>
    IN  Written(<<"s">> \o S(byteList[1]) \o S(byteList[2]) \o S(byteList[3])
                \o S(byteList[4]) \o S(_pec(byteList)) \o <<"p">>, ch)

_read_byte_pec(addr_7bit, command_code, ch) ==
    LET byteList  == <<_write_addr(addr_7bit), command_code, _read_addr(addr_7bit)>>
        write_str == <<"s">> \o S(byteList[1]) \o S(byteList[2]) \o <<"s">>
                     \o S(byteList[3]) \o <<"Q", "R", "p">>
        ret_str   == Take(ch.rx, 4)
    IN  IF Len(ret_str) # 4
        THEN Ended(write_str, Raise(ShortResponse), ret_str, << >>, ch.late)
        ELSE Checked(write_str, byteList, ret_str, 4, ch,
                Sentinels(write_str, ret_str, 4, ch, Byte(ret_str, 0, 2)))

_write_byte_pec(addr_7bit, command_code, data8, ch) ==
    LET byteList == <<_write_addr(addr_7bit), command_code, data8>>
    IN  Written(<<"s">> \o S(byteList[1]) \o S(byteList[2]) \o S(byteList[3])
                \o S(_pec(byteList)) \o <<"p">>, ch)

_receive_byte_pec(addr_7bit, ch) ==
    LET byteList  == <<_read_addr(addr_7bit)>>
        write_str == <<"s">> \o S(byteList[1]) \o <<"Q", "R", "p">>
        ret_str   == Take(ch.rx, 4)
    IN  IF Len(ret_str) # 4
        THEN Ended(write_str, Raise(ShortResponse), ret_str, << >>, ch.late)
        ELSE Checked(write_str, byteList, ret_str, 4, ch,
                LongOnly(write_str, ret_str, 4, ch, Byte(ret_str, 0, 2)))

_send_byte_pec(addr_7bit, data8, ch) ==
    LET byteList == <<_write_addr(addr_7bit), data8>>
    IN  Written(<<"s">> \o S(byteList[1]) \o S(byteList[2]) \o S(_pec(byteList))
                \o <<"p">>, ch)

_alert_response_pec(ch) ==
    LET byteList  == <<_read_addr(12)>>
        write_str == <<"s">> \o S(byteList[1]) \o <<"Q", "R", "p">>
        ret_str   == Take(ch.rx, 4)
        waiting   == Len(Drop(ch.rx, 4)) # 0
        ret_extra == IF waiting THEN Drop(ch.rx, 4) \o ch.late ELSE << >>
        left      == IF waiting THEN << >> ELSE ch.late
    IN  IF Len(ret_str) # 4
        THEN Ended(write_str, Raise(ShortResponse), ret_str, << >>, ch.late)
        ELSE IF waiting /\ ret_str[1] # "N"
        THEN Ended(write_str, Raise(LongResponse), ret_str, ret_extra, left)
        ELSE IF ret_str[1] = "N"
        THEN Ended(write_str, Ok(PyNone), ret_str, ret_extra, left)
        ELSE IF ~int16(SubSeq(ret_str, 1, 2)).ok \/ ~int16(SubSeq(ret_str, 3, 4)).ok
        THEN Ended(write_str, Raise(ValueError), ret_str, ret_extra, left)
        ELSE IF int16(SubSeq(ret_str, 3, 4)).v
                # _pec(Append(byteList, int16(SubSeq(ret_str, 1, 2)).v))
        THEN Ended(write_str, Raise(FailedPEC), ret_str, ret_extra, left)
        ELSE Ended(write_str, Address7(ret_str, 0, 2), ret_str, ret_extra, left)

----------------------------------------------------------------------------
(* The pure functions applied to sampled arguments: one application per   *)
(* behaviour, its arguments in pin and what it gave in pout.              *)

api == <<regmap, mem, bus, last, mem0, touched, nops, attrs, thr, consts, formatters, chips>>

\* Old register contents tried.
OldWords == {0, 65535, 42405, 23130, 32769, 4080}   \* ..., 0x8001, 0x0FF0

\* Integers near both ends of 0 .. 2^size - 1, and one past each end.
NearEnds(size) ==
    {n \in (-1..MaxData) \cup ((Pow2(size) - 1 - MaxData)..Pow2(size)) :
        n >= -1 /\ n <= Pow2(size)}

\* Integers near both ends of the signed range of bitCount bits, near zero,
\* and past each end.
NearSignedEnds(bitCount) ==
    LET lo == -Pow2(bitCount - 1)
        hi == Pow2(bitCount - 1) - 1
    IN  ((lo - MaxData)..(lo + MaxData)) \cup ((-MaxData)..MaxData)
        \cup ((hi - MaxData)..(hi + MaxData)) \cup {Pow2(bitCount - 1) * 3}

ApplyPack ==
    /\ pin.fn = "none"
    /\ \E size \in 1..word_size :
       \E offset \in 0..(word_size - size), data \in NearEnds(size), old \in OldWords :
          /\ pin' = [fn |-> "_pack", data |-> data, size |-> size, offset |-> offset,
                     old |-> old]
          /\ pout' = _pack(data, size, offset, old)
    /\ UNCHANGED api

ApplyTwos ==
    /\ pin.fn = "none"
    /\ \E bitCount \in 1..word_size :
       \E signed \in NearSignedEnds(bitCount),
          binary \in {n \in NearEnds(bitCount) \cup {Pow2(bitCount - 1) - 1, Pow2(bitCount - 1)} :
                         n >= 0 /\ n < Pow2(bitCount)} :
          /\ pin' = [fn |-> "twos", signed |-> signed, binary |-> binary,
                     bitCount |-> bitCount]
          /\ pout' = [toTwos   |-> _signedToTwosComplement(signed, bitCount),
                      fromTwos |-> _twosComplementToSigned(binary, bitCount),
                      there    |-> _twosComplementToSigned(
                                      _signedToTwosComplement(signed, bitCount), bitCount),
                      back     |-> _signedToTwosComplement(
                                      _twosComplementToSigned(binary, bitCount).v, bitCount)]
    /\ UNCHANGED api

\* The register map with one field's active format changed and, with
\* `cleared`, every field's presets removed (as set_active_format and
\* disable_presets_and_formats leave it).
MapWith(bf_name, format_name, cleared) ==
    [k \in Fields |->
        [RegisterMapDecl[k] EXCEPT
            !.presets = IF cleared THEN << >> ELSE @,
            !.active_format = IF k = bf_name THEN format_name
                              ELSE IF cleared THEN "None" ELSE @]]

ApplyRoundTrip ==
    /\ pin.fn = "none"
    /\ \E bf_name \in Fields, cleared \in BOOLEAN :
       \E format_name \in RegisterMapDecl[bf_name].allowed_formats \cup {"None"},
          raw \in {n \in NearEnds(RegisterMapDecl[bf_name].size)
                          \cup {Pow2(RegisterMapDecl[bf_name].size - 1) - 1,
                                Pow2(RegisterMapDecl[bf_name].size - 1)} :
                      n >= 0 /\ n < Pow2(RegisterMapDecl[bf_name].size)} :
          LET rm == MapWith(bf_name, format_name, cleared)
              formatted == _format(rm, bf_name, raw)
          IN  /\ pin' = [fn |-> "roundtrip", rm |-> rm, bf |-> bf_name, raw |-> raw]
              /\ pout' = [formatted |-> formatted,
                          unformatted |-> _unformat(rm, bf_name, formatted.v)]
    /\ UNCHANGED api

\* Byte values the sampled byte lists are made of, and whole transactions
\* (address, command code, read address, data low, data high).
PecSample == {0, 18, 52, 255}

RECURSIVE ByteLists(_)
ByteLists(n) ==
    IF n = 0 THEN {<< >>}
    ELSE ByteLists(n - 1)
         \cup {Append(l, b) : l \in {x \in ByteLists(n - 1) : Len(x) = n - 1}, b \in PecSample}

Transactions == {<<18, 3, 19, 165, 165>>, <<18, 46, 19, 255, 0>>, <<25, 128>>}

\* byteList with one bit of one byte inverted
FlipBit(byteList, pos, bit) ==
    [byteList EXCEPT ![pos] = BitXor(@, Pow2(bit))]

ApplyPec ==
    /\ pin.fn = "none"
    /\ \E byteList \in ByteLists(MaxBytes) \cup Transactions :
          \/ /\ pin' = [fn |-> "_pec", bytes |-> byteList, pos |-> 0, bit |-> 0]
             /\ pout' = [crc |-> _pec(byteList), again |-> _pec(byteList),
                         flipped |-> _pec(byteList)]
          \/ \E pos \in 1..Len(byteList), bit \in 0..7 :
                /\ pin' = [fn |-> "_pec", bytes |-> byteList, pos |-> pos, bit |-> bit]
                /\ pout' = [crc |-> _pec(byteList), again |-> _pec(byteList),
                            flipped |-> _pec(FlipBit(byteList, pos, bit))]
    /\ UNCHANGED api

\* What a user-supplied read_function may return for the register: words of
\* 16 bits, wider ones (0x10000, 0x1A5A5) and negative ones.
ReadWords == {0, 65535, 42405, 65536, 107941, -1, -23131}

\* One field write against a register whose read returns `old`
ApplyWriteBf ==
    /\ pin.fn = "none"
    /\ \E bf_name \in Writable, cleared \in BOOLEAN, old \in ReadWords :
       \E data \in WriteValues(bf_name) \cup {PyStr("small_cap"), PyFloat(27, 40)} :
          LET rm == MapWith(bf_name, RegisterMapDecl[bf_name].active_format, cleared)
          IN  /\ pin' = [fn |-> "_write_bf", rm |-> rm, bf |-> bf_name, data |-> data,
                         old |-> old]
              /\ pout' = _write_bf(rm, [c \in CommandCodes |-> old], bf_name, data, "none")
    /\ UNCHANGED api

PureNext == ApplyPack \/ ApplyTwos \/ ApplyRoundTrip \/ ApplyPec \/ ApplyWriteBf

PureSpec == Init /\ [][PureNext]_vars

----------------------------------------------------------------------------
(* The transport primitives, one call per behaviour: the call and what the   *)
(* serial port hands it in pin, how it ended in pout.                        *)

Addrs    == {9, 48}
Commands == {3, 46}
Words    == {0, 4660, 65535}        \* 0x0000, 0x1234, 0xFFFF
Bytes    == {0, 25, 255}            \* 0x00, 0x19, 0xFF
Extras   == {<< >>, <<"5", "5">>}   \* characters waiting behind a full response
Lates    == {<< >>, <<"N">>}        \* characters that arrive after the call looked

\* A response with its last hex digit changed
Corrupt(g) == [g EXCEPT ![Len(g)] = HexChars[((HexVal(@) + 1) % 16) + 1]]

\* A response with sentinel characters in it
Spoiled(g) ==
    {[g EXCEPT ![i] = c] : i \in 1..Len(g), c \in {"N", "X"}}
    \cup {[i \in 1..Len(g) |-> c] : c \in {"N", "X"}}
    \cup {[g EXCEPT ![1] = "N", ![Len(g)] = "X"], [g EXCEPT ![1] = "X", ![Len(g)] = "N"]}

\* What the port may hand to a read whose good response is g
Channels(g) ==
    {[rx |-> r \o e, late |-> l] :
        r \in {g, Corrupt(g)} \cup Spoiled(g), e \in Extras, l \in Lates}
    \cup {[rx |-> Take(g, k), late |-> l] : k \in 0..(Len(g) - 1), l \in Lates}

\* What the port may hold right after a write
WriteChannels ==
    {[rx |-> r, late |-> l] : r \in {<< >>, <<"N">>, <<"X">>, <<"5", "5">>}, l \in Lates}

\* The response of a device that answers with the bytes `data`, in checked
\* mode followed by the checksum over the bytes sent and the data
Good(pec, sent, data) ==
    LET hex == IF Len(data) = 2 THEN _hex_str(data[1]) \o _hex_str(data[2])
               ELSE _hex_str(data[1])
    IN  IF pec THEN hex \o _hex_str(_pec(sent \o data)) ELSE hex

TCall(fn, pec, addr_7bit, command_code, data, ch) ==
    [fn |-> fn, pec |-> pec, addr_7bit |-> addr_7bit, command_code |-> command_code,
     data |-> data, ch |-> ch]

\* set_pec binds each public name to the checked or the unchecked primitive.
ReadWord(pec) ==
    /\ pin.fn = "none"
    /\ \E a \in Addrs, c \in Commands, w \in Words :
       \E ch \in Channels(Good(pec, <<_write_addr(a), c, _read_addr(a)>>,
                               <<_low_byte(w), _high_byte(w)>>)) :
          /\ pin' = TCall("read_word", pec, a, c, w, ch)
          /\ pout' = IF pec THEN _read_word_pec(a, c, ch) ELSE _read_word_nopec(a, c, ch)
    /\ UNCHANGED api

WriteWord(pec) ==
    /\ pin.fn = "none"
    /\ \E a \in Addrs, c \in Commands, w \in Words, ch \in WriteChannels :
          /\ pin' = TCall("write_word", pec, a, c, w, ch)
          /\ pout' = IF pec THEN _write_word_pec(a, c, w, ch)
                     ELSE _write_word_nopec(a, c, w, ch)
    /\ UNCHANGED api

ReadByte(pec) ==
    /\ pin.fn = "none"
    /\ \E a \in Addrs, c \in Commands, b \in Bytes :
       \E ch \in Channels(Good(pec, <<_write_addr(a), c, _read_addr(a)>>, <<b>>)) :
          /\ pin' = TCall("read_byte", pec, a, c, b, ch)
          /\ pout' = IF pec THEN _read_byte_pec(a, c, ch) ELSE _read_byte_nopec(a, c, ch)
    /\ UNCHANGED api

WriteByte(pec) ==
    /\ pin.fn = "none"
    /\ \E a \in Addrs, c \in Commands, b \in Bytes, ch \in WriteChannels :
          /\ pin' = TCall("write_byte", pec, a, c, b, ch)
          /\ pout' = IF pec THEN _write_byte_pec(a, c, b, ch)
                     ELSE _write_byte_nopec(a, c, b, ch)
    /\ UNCHANGED api

ReceiveByte(pec) ==
    /\ pin.fn = "none"
    /\ \E a \in Addrs, b \in Bytes :
       \E ch \in Channels(Good(pec, <<_read_addr(a)>>, <<b>>)) :
          /\ pin' = TCall("receive_byte", pec, a, 0, b, ch)
          /\ pout' = IF pec THEN _receive_byte_pec(a, ch) ELSE _receive_byte_nopec(a, ch)
    /\ UNCHANGED api

SendByte(pec) ==
    /\ pin.fn = "none"
    /\ \E a \in Addrs, b \in Bytes, ch \in WriteChannels :
          /\ pin' = TCall("send_byte", pec, a, 0, b, ch)
          /\ pout' = IF pec THEN _send_byte_pec(a, b, ch) ELSE _send_byte_nopec(a, b, ch)
    /\ UNCHANGED api

AlertResponse(pec) ==
    /\ pin.fn = "none"
    /\ \E b \in Bytes :
       \E ch \in Channels(Good(pec, <<_read_addr(12)>>, <<b>>)) :
          /\ pin' = TCall("alert_response", pec, 12, 0, b, ch)
          /\ pout' = IF pec THEN _alert_response_pec(ch) ELSE _alert_response_nopec(ch)
    /\ UNCHANGED api

TransportNext ==
    \/ \E pec \in BOOLEAN : ReadWord(pec)
    \/ \E pec \in BOOLEAN : WriteWord(pec)
    \/ \E pec \in BOOLEAN : ReadByte(pec)
    \/ \E pec \in BOOLEAN : WriteByte(pec)
    \/ \E pec \in BOOLEAN : ReceiveByte(pec)
    \/ \E pec \in BOOLEAN : SendByte(pec)
    \/ \E pec \in BOOLEAN : AlertResponse(pec)

TransportSpec == Init /\ [][TransportNext]_vars

----------------------------------------------------------------------------
(* Two callers writing fields of the control register through one instance, *)
(* with nothing between them but the bus: _write_bf takes no lock, so the    *)
(* callers' bus calls may come in any order.  Each caller makes one call.    *)

\* A bus call and the caller that made it
BusBy(w, e) == [by |-> w, op |-> e.op, cmd |-> e.cmd, data |-> e.data, ok |-> e.ok]

RaceFields == {f \in Writable : RegisterMapDecl[f].command_code = 0}
SubWordFields == {f \in RaceFields : RegisterMapDecl[f].size # word_size}

RaceValues(bf_name) ==
    IF RegisterMapDecl[bf_name].size = word_size
    THEN {PyInt(0), PyInt(42381), PyInt(65536)}       \* 0xA58D; one too wide
    ELSE {PyInt(0), PyInt(1), PyStr("volts")}
         \cup {PyStr(RegisterMapDecl[bf_name].presets[i][1]) :
                  i \in 1..Len(RegisterMapDecl[bf_name].presets)}

Merged_from_zero(w) ==
    LET e == regmap[thr[w].bf]
    IN  _pack(thr[w].raw, e.size, e.offset, 0)

Merged_reread(w) ==
    LET e == regmap[thr[w].bf]
    IN  _pack(thr[w].raw, e.size, e.offset, mem[e.command_code])

\* _write_bf, line 162: _pack of the caller's data into the register contents
\* the caller read
Merged(w) ==
    LET e == regmap[thr[w].bf]
    IN  _pack(thr[w].raw, e.size, e.offset, thr[w].old)

\* _write_bf on a sub-word field up to and including its read_function call
StartWrite(w, bf_name, data) ==
    LET e == regmap[bf_name]
        u == _unformat(regmap, bf_name, data)
    IN  /\ thr[w].pc = "idle"
        /\ e.size # word_size
        /\ nops < MaxOps
        /\ nops' = nops + 1
        /\ IF ~u.ok
           THEN /\ thr' = [thr EXCEPT ![w] = [pc |-> "done", bf |-> bf_name, data |-> data,
                                              raw |-> 0, old |-> 0]]
                /\ last' = Call("write", bf_name, data, u)
                /\ bus' = bus
           ELSE /\ thr' = [thr EXCEPT ![w] = [pc |-> "read", bf |-> bf_name, data |-> data,
                                              raw |-> u.v, old |-> mem[e.command_code]]]
                /\ bus' = Append(bus, BusBy(w, BusRead(e.command_code,
                                                       mem[e.command_code], TRUE)))
                /\ last' = last
        /\ UNCHANGED <<regmap, mem, mem0, touched, pin, pout, attrs, consts, formatters, chips>>

\* the rest of that call: _pack, then the write_function call
FinishWrite(w) ==
    LET e == regmap[thr[w].bf]
        p == Merged(w)
    IN  /\ thr[w].pc = "read"
        /\ thr' = [thr EXCEPT ![w].pc = "done"]
        /\ last' = Call("write", thr[w].bf, thr[w].data, IF p.ok THEN Ok(PyNone) ELSE p)
        /\ IF p.ok
           THEN /\ mem' = [mem EXCEPT ![e.command_code] = p.v]
                /\ bus' = Append(bus, BusBy(w, BusWrite(e.command_code, p.v, TRUE)))
                /\ touched' = [touched EXCEPT ![e.command_code] = BitOr(@, FieldMask(e))]
           ELSE UNCHANGED <<mem, bus, touched>>
        /\ UNCHANGED <<regmap, mem0, nops, pin, pout, attrs, consts, formatters, chips>>

\* _write_bf on a field as wide as the register: write in place, one bus call
AliasWrite(w, bf_name, data) ==
    LET e == regmap[bf_name]
        u == _unformat(regmap, bf_name, data)
        r == _write_bf(regmap, mem, bf_name, data, "none")
    IN  /\ thr[w].pc = "idle"
        /\ e.size = word_size
        /\ nops < MaxOps
        /\ nops' = nops + 1
        /\ thr' = [thr EXCEPT ![w] = [pc |-> "done", bf |-> bf_name, data |-> data,
                                      raw |-> IF u.ok THEN u.v ELSE 0, old |-> 0]]
        /\ mem' = r.mem
        /\ bus' = bus \o [i \in 1..Len(r.bus) |-> BusBy(w, r.bus[i])]
        /\ touched' = IF r.res.ok
                      THEN [touched EXCEPT ![e.command_code] = BitOr(@, FieldMask(e))]
                      ELSE touched
        /\ last' = Call("write", bf_name, data, r.res)
        /\ UNCHANGED <<regmap, mem0, pin, pout, attrs, consts, formatters, chips>>

RaceNext ==
    \/ \E w \in Writers, f \in SubWordFields : \E d \in RaceValues(f) : StartWrite(w, f, d)
    \/ \E w \in Writers : FinishWrite(w)
    \/ \E w \in Writers, f \in RaceFields \ SubWordFields :
          \E d \in RaceValues(f) : AliasWrite(w, f, d)

RaceSpec == Init /\ [][RaceNext]_vars

----------------------------------------------------------------------------
(* The register API on top of the transport, as start.py wires them:        *)
(*   LTC3351(read_function = dc590b.read_word,                              *)
(*           write_function = dc590b.write_word)                            *)
(* One field access per behaviour; pout.calls are the transport calls it    *)
(* made, in order, each with how it ended.                                  *)

\* What the device at the instance's address answers to a read of a register
Answer(m, pec, command_code) ==
    Good(pec, <<_write_addr(9), command_code, _read_addr(9)>>,
         <<_low_byte(m[command_code]), _high_byte(m[command_code])>>)

read_word(pec, command_code, ch) ==
    [fn |-> "read_word",
     end |-> IF pec THEN _read_word_pec(9, command_code, ch)
             ELSE _read_word_nopec(9, command_code, ch)]

write_word(pec, command_code, data16, ch) ==
    [fn |-> "write_word", data16 |-> data16,
     end |-> IF pec THEN _write_word_pec(9, command_code, data16, ch)
             ELSE _write_word_nopec(9, command_code, data16, ch)]

\* Values assigned through the stack
StackValues == {PyInt(1), PyStr("volts")}

\* chip.<bf_name> read through the transport: _read_bf
FieldRead(bf_name, pec) ==
    LET e == regmap[bf_name]
    IN  /\ pin.fn = "none"
        /\ \E ch \in Channels(Answer(mem, pec, e.command_code)) :
           \E t \in {read_word(pec, e.command_code, ch)} :
              /\ pin' = [fn |-> "field_read", pec |-> pec, bf |-> bf_name, data |-> PyNone]
              /\ pout' = [calls |-> <<t>>]
              /\ bus' = <<BusRead(e.command_code, mem[e.command_code], t.end.res.ok)>>
              /\ last' = Call("read", bf_name, PyNone,
                              IF t.end.res.ok
                              THEN _format(regmap, bf_name,
                                           _extract(t.end.res.v.n, e.size, e.offset))
                              ELSE t.end.res)
        /\ nops' = nops + 1
        /\ UNCHANGED <<regmap, mem, mem0, touched, attrs, thr, consts, formatters, chips>>

\* The end of a field write through the transport: the transport calls it
\* made, its result, and the word the device took (-1: none).
Wrote(bf_name, data, pec, calls, res, word) ==
    LET e == regmap[bf_name]
    IN  /\ pin' = [fn |-> "field_write", pec |-> pec, bf |-> bf_name, data |-> data]
        /\ pout' = [calls |-> calls]
        /\ bus' = [i \in 1..Len(calls) |->
                      IF calls[i].fn = "read_word"
                      THEN BusRead(e.command_code, mem[e.command_code], calls[i].end.res.ok)
                      ELSE BusWrite(e.command_code, calls[i].data16, calls[i].end.res.ok)]
        /\ mem' = IF word = -1 THEN mem ELSE [mem EXCEPT ![e.command_code] = word]
        /\ touched' = IF res.ok
                      THEN [touched EXCEPT ![e.command_code] = BitOr(@, FieldMask(e))]
                      ELSE touched
        /\ last' = Call("write", bf_name, data, res)

\* write_function(addr_7bit, command_code, data16) and the end of the field
\* write.  A frame that was transmitted and then answered unexpectedly may or
\* may not have been taken by the device.
WriteThrough(bf_name, data, pec, before, data16) ==
    \E wch \in WriteChannels :
    \E t2 \in {[write_word(pec, regmap[bf_name].command_code, data16, wch)
                EXCEPT !.data16 = data16]} :
    \E taken \in IF t2.end.res.ok THEN {TRUE} ELSE BOOLEAN :
        Wrote(bf_name, data, pec, Append(before, t2), t2.end.res,
              IF taken THEN data16 ELSE -1)

\* chip.<bf_name> = data through the transport: _write_bf
FieldWrite(bf_name, data, pec) ==
    LET e == regmap[bf_name]
    IN  /\ pin.fn = "none"
        /\ bf_name \in Writable
        /\ \E u \in {_unformat(regmap, bf_name, data)} :
              IF ~u.ok THEN Wrote(bf_name, data, pec, << >>, u, -1)
              ELSE IF e.size = word_size
              THEN IF u.v >= Shl(1, word_size) \/ u.v < 0
                   THEN Wrote(bf_name, data, pec, << >>, Raise(APIException), -1)
                   ELSE WriteThrough(bf_name, data, pec, << >>, u.v)
              ELSE \E rch \in Channels(Answer(mem, pec, e.command_code)) :
                   \E t1 \in {read_word(pec, e.command_code, rch)} :
                      IF ~t1.end.res.ok
                      THEN Wrote(bf_name, data, pec, <<t1>>, t1.end.res, -1)
                      ELSE \E p \in {_pack(u.v, e.size, e.offset, t1.end.res.v.n)} :
                              IF ~p.ok THEN Wrote(bf_name, data, pec, <<t1>>, p, -1)
                              ELSE WriteThrough(bf_name, data, pec, <<t1>>, p.v)
        /\ nops' = nops + 1
        /\ UNCHANGED <<regmap, mem0, attrs, thr, consts, formatters, chips>>

StackNext ==
    \/ \E f \in Fields, pec \in BOOLEAN : FieldRead(f, pec)
    \/ \E f \in Fields, d \in StackValues, pec \in BOOLEAN : FieldWrite(f, d, pec)
    \/ TransportNext

StackSpec == Init /\ [][StackNext]_vars

----------------------------------------------------------------------------
(* Several instances of the class.  _register_map, _constants and           *)
(* _formatters are attributes of the class, changed in place; an instance    *)
(* finds them through attribute lookup: its own __dict__ first, then the     *)
(* class.  pin is the call being made and by which instance, pout the call   *)
(* made before it and the instance that made it.                             *)

\* self.<name> for a name the class defines
Bound(i, name, shared) ==
    IF name \in DOMAIN chips[i] THEN chips[i][name] ELSE shared

ClassFields  == {"ctl_cap_scale", "vcapfb_dac", "meas_cap"}
ClassFormats == {<<"NONE", FALSE>>, <<NoneArg, FALSE>>, <<"cap_zs_format", FALSE>>,
                 <<"cell_format", FALSE>>, <<"cell_format", TRUE>>}
ClassValues  == {PyInt(1), PyInt(-1), PyStr("small_cap"), PyFloat(27, 40)}
ScaleValues  == {0, 1}

\* The part of a call every method shares: one more call, made by chip i
ChipCall(i) ==
    /\ nops < MaxOps
    /\ nops' = nops + 1
    /\ pin' = [fn |-> "call", chip |-> i]
    /\ pout' = [call |-> last, chip |-> IF pin.fn = "call" THEN pin.chip ELSE ""]

ChipSetActiveFormat_private(i, bf_name, format_name, force) ==
    LET rm == Bound(i, "_register_map", regmap)
        none == format_name = NoneArg \/ Lower(format_name) = "none"
        allowed == format_name \in rm[bf_name].allowed_formats \/ force
        after == IF none THEN [rm EXCEPT ![bf_name].active_format = "None"]
                 ELSE IF allowed THEN [rm EXCEPT ![bf_name].active_format = format_name]
                 ELSE rm
    IN  /\ ChipCall(i)
        /\ bus' = << >>
        /\ chips' = [chips EXCEPT ![i] =
                        [n \in DOMAIN chips[i] \cup {"_register_map"} |->
                            IF n = "_register_map" THEN after ELSE chips[i][n]]]
        /\ last' = Call("set_active_format", bf_name, <<format_name, force>>,
                        IF none \/ allowed THEN Ok(PyNone) ELSE Raise(APIException))
        /\ UNCHANGED <<regmap, mem, mem0, touched, attrs, thr, consts, formatters>>

ChipSetActiveFormat_unchecked(i, bf_name, format_name, force) ==
    LET rm == Bound(i, "_register_map", regmap)
        none == format_name = NoneArg \/ Lower(format_name) = "none"
        allowed == format_name \in rm[bf_name].allowed_formats \/ force
    IN  /\ ChipCall(i)
        /\ bus' = << >>
        /\ regmap' = IF none THEN [rm EXCEPT ![bf_name].active_format = "None"]
                     ELSE [rm EXCEPT ![bf_name].active_format = format_name]
        /\ last' = Call("set_active_format", bf_name, <<format_name, force>>,
                        IF none \/ allowed THEN Ok(PyNone) ELSE Raise(APIException))
        /\ UNCHANGED <<mem, mem0, touched, attrs, thr, consts, formatters, chips>>

\* LTC3351.set_active_format called on chip i
ChipSetActiveFormat(i, bf_name, format_name, force) ==
    LET rm == Bound(i, "_register_map", regmap)
        none == format_name = NoneArg \/ Lower(format_name) = "none"
        allowed == format_name \in rm[bf_name].allowed_formats \/ force
    IN  /\ ChipCall(i)
        /\ bus' = << >>
        /\ regmap' = IF none THEN [rm EXCEPT ![bf_name].active_format = "None"]
                     ELSE IF allowed
                          THEN [rm EXCEPT ![bf_name].active_format = format_name]
                     ELSE rm
        /\ last' = Call("set_active_format", bf_name, <<format_name, force>>,
                        IF none \/ allowed THEN Ok(PyNone) ELSE Raise(APIException))
        /\ UNCHANGED <<mem, mem0, touched, attrs, thr, consts, formatters, chips>>

\* LTC3351.disable_presets_and_formats called on chip i
ChipDisablePresetsAndFormats(i) ==
    LET rm == Bound(i, "_register_map", regmap)
    IN  /\ ChipCall(i)
        /\ bus' = << >>
        /\ \E done \in (IF BogusKey \in DOMAIN rm THEN SUBSET Fields ELSE {Fields}) :
              regmap' = [k \in DOMAIN rm |->
                            IF k \in done
                            THEN [rm[k] EXCEPT !.presets = << >>, !.active_format = "None"]
                            ELSE rm[k]]
        /\ last' = Call("disable_presets_and_formats", "", PyNone,
                        IF BogusKey \in DOMAIN rm THEN Raise(TypeError) ELSE Ok(PyNone))
        /\ UNCHANGED <<mem, mem0, touched, attrs, thr, consts, formatters, chips>>

\* LTC3351.set_constant called on chip i: the constant is stored and
\* _update_xml_formatters builds every declared format anew.
ChipSetConstant(i, constant, value) ==
    LET c == Bound(i, "_constants", consts)
        after == [n \in DOMAIN c \cup {constant} |-> IF n = constant THEN value ELSE c[n]]
    IN  /\ ChipCall(i)
        /\ bus' = << >>
        /\ consts' = after
        /\ formatters' = [n \in DOMAIN formatters \cup DOMAIN XmlFormatsWith(after) |->
                             IF n \in DOMAIN XmlFormatsWith(after)
                             THEN XmlFormatsWith(after)[n] ELSE formatters[n]]
        /\ last' = Call("set_constant", constant, PyInt(value), Ok(PyNone))
        /\ UNCHANGED <<regmap, mem, mem0, touched, attrs, thr, chips>>

ChipRead_caches(i, bf_name, fail) ==
    LET r == _read_bf(Bound(i, "_register_map", regmap), mem, bf_name, fail)
    IN  /\ ChipCall(i)
        /\ bus' = r.bus
        /\ last' = Call("read", bf_name, PyNone, r.res)
        /\ regmap' = [regmap EXCEPT ![bf_name].read_presets_enabled = FALSE]
        /\ UNCHANGED <<mem, mem0, touched, attrs, thr, consts, formatters, chips>>

\* chip_i.<bf_name>
ChipRead(i, bf_name, fail) ==
    LET r == _read_bf(Bound(i, "_register_map", regmap), mem, bf_name, fail)
    IN  /\ ChipCall(i)
        /\ bus' = r.bus
        /\ last' = Call("read", bf_name, PyNone, r.res)
        /\ UNCHANGED <<regmap, mem, mem0, touched, attrs, thr, consts, formatters, chips>>

\* chip_i.<bf_name> = data
ChipWrite(i, bf_name, data) ==
    LET rm == Bound(i, "_register_map", regmap)
        r == IF bf_name \in Writable
             THEN _write_bf(rm, mem, bf_name, data, "none")
             ELSE [res |-> Raise(APIException), bus |-> << >>, mem |-> mem]
        cmd == rm[bf_name].command_code
    IN  /\ ChipCall(i)
        /\ bus' = r.bus
        /\ mem' = r.mem
        /\ touched' = IF r.res.ok
                      THEN [touched EXCEPT ![cmd] = BitOr(@, FieldMask(rm[bf_name]))]
                      ELSE touched
        /\ last' = Call("write", bf_name, data, r.res)
        /\ UNCHANGED <<regmap, mem0, attrs, thr, consts, formatters, chips>>

\* chip_i.get_status()
ChipGetStatus(i) ==
    LET rm == Bound(i, "_register_map", regmap)
    IN  /\ ChipCall(i)
        /\ \E failKey \in {"", "vshunt"} :
           \E r \in {get_status(rm, mem, Keys(rm, 0), failKey, [x \in {} |-> PyNone], << >>)} :
              /\ bus' = r.bus
              /\ last' = Call("get_status", "", PyNone, r.res)
        /\ UNCHANGED <<regmap, mem, mem0, touched, attrs, thr, consts, formatters, chips>>

ClassNext ==
    \/ \E i \in Chips, f \in ClassFields, c \in ClassFormats :
          ChipSetActiveFormat(i, f, c[1], c[2])
    \/ \E i \in Chips : ChipDisablePresetsAndFormats(i)
    \/ \E i \in Chips, v \in ScaleValues : ChipSetConstant(i, "CTL_CAP_SCALE_VALUE", v)
    \/ \E i \in Chips, f \in ClassFields, fail \in {"none", "read"} : ChipRead(i, f, fail)
    \/ \E i \in Chips, f \in ClassFields, d \in ClassValues : ChipWrite(i, f, d)
    \/ \E i \in Chips : ChipGetStatus(i)

ClassSpec == Init /\ [][ClassNext]_vars

----------------------------------------------------------------------------
(* Properties *)

\* C1 (RMW isolation).  The word a sub-word field write sends to the bus has,
\* outside the field's bits, the bits of the word its read returned; and in
\* every register, every bit not covered by a field written so far has its
\* value of construction time.
C1_RMWIsolation ==
    /\ (last.op = "write" /\ Len(bus) = 2) =>
          LET e == regmap[last.bf]
              Outside(w) ==
                  w - ((w \div Pow2(e.offset)) % Pow2(e.size)) * Pow2(e.offset)
          IN  /\ e.size < word_size
              /\ bus[1].op = "read" /\ bus[2].op = "write"
              /\ Outside(bus[2].data) = Outside(bus[1].data)
    /\ \A c \in CommandCodes :
          BitAnd(mem[c], 65535 - touched[c]) = BitAnd(mem0[c], 65535 - touched[c])

\* C1 witness: register 0 started as 0xA5A5 (bit 5 set, bit 3 clear); the
\* 1-bit field at offset 3 was written to 1 and bit 5 is still set.
C1_Witness ==
    /\ last.op = "write" /\ last.bf = "ctl_cap_scale" /\ last.res.ok
    /\ mem0[0] = 42405
    /\ (mem[0] \div 8) % 2 = 1
    /\ (mem[0] \div 32) % 2 = 1
    /\ mem[0] = 42413

\* C2 (packing law).  For in-range data, _pack returns a word that agrees
\* with the old word outside the field mask and holds data << offset inside.
C2_PackingLaw ==
    (pin.fn = "_pack" /\ pin.data >= 0 /\ pin.data < Pow2(pin.size)) =>
        LET fieldmask == (Pow2(pin.size) - 1) * Pow2(pin.offset)
        IN  /\ pout.ok
            /\ BitAnd(pout.v, 65535 - fieldmask) = BitAnd(pin.old, 65535 - fieldmask)
            /\ BitAnd(pout.v, fieldmask) = pin.data * Pow2(pin.offset)

\* C2 witness: packing 0 into the 1-bit field at offset 5 of 0xA5A5.
C2_Witness ==
    /\ pin.fn = "_pack" /\ pin.size = 1 /\ pin.offset = 5 /\ pin.data = 0
    /\ pin.old = 42405
    /\ pout = Ok(42373)

\* C3 (read).  A field read makes exactly one bus call, a read at the field's
\* command code that returns the register; what it hands back is _format of
\* the field's bits of that word, and with no presets in force and format
\* 'None' it is exactly that integer, which is within the field's width.
C3_ReadOneWord ==
    last.op = "read" =>
        LET e == regmap[last.bf]
            x == (bus[1].data \div Pow2(e.offset)) % Pow2(e.size)
        IN  /\ Len(bus) = 1
            /\ bus[1].op = "read"
            /\ bus[1].cmd = e.command_code
            /\ bus[1].data = mem[e.command_code]
            /\ bus[1].ok =>
                  /\ last.res = _format(regmap, last.bf, x)
                  /\ ((e.presets = << >> \/ ~e.read_presets_enabled)
                         /\ e.active_format = "None") =>
                        /\ last.res = Ok(PyInt(x))
                        /\ x >= 0 /\ x < Pow2(e.size)

\* C3 witness: the 4-bit field of register 3 (0xA5A5) read raw, giving 5.
C3_Witness ==
    /\ last.op = "read" /\ last.bf = "vcapfb_dac"
    /\ regmap["vcapfb_dac"].active_format = "None"
    /\ mem[3] = 42405
    /\ last.res = Ok(PyInt(5))

\* C4 (bus calls of a write).  All bus calls of a field write are at the
\* field's command code.  A full-width field's write makes no read and at
\* most one write, exactly one carrying the unformatted value when it
\* completes.  A sub-word field's write makes at most a read and then a write,
\* in that order, and exactly both when it completes.
C4_WriteBusSequence ==
    last.op = "write" =>
        LET e == regmap[last.bf]
            u == _unformat(regmap, last.bf, last.arg)
        IN  /\ \A i \in 1..Len(bus) : bus[i].cmd = e.command_code
            /\ IF e.size = word_size
               THEN /\ Len(bus) <= 1
                    /\ \A i \in 1..Len(bus) : bus[i].op = "write"
                    /\ last.res.ok =>
                          (Len(bus) = 1 /\ bus[1].ok /\ u.ok /\ bus[1].data = u.v)
               ELSE /\ Len(bus) <= 2
                    /\ Len(bus) >= 1 => bus[1].op = "read"
                    /\ Len(bus) = 2 => (bus[1].ok /\ bus[2].op = "write")
                    /\ last.res.ok => (Len(bus) = 2 /\ bus[2].ok)

\* C4 witness: the full register 0 was written (one bus write), and then the
\* 1-bit field at offset 5 of it (a read, then a write).
C4_Witness ==
    /\ touched[0] = 65535
    /\ last.op = "write" /\ last.bf = "ctl_hotswap_disable" /\ last.res.ok
    /\ Len(bus) = 2 /\ bus[1].op = "read" /\ bus[2].op = "write"

\* C5 (range check on raw writes).  A write of an integer outside
\* 0 .. 2^size - 1 to a writable field whose active format is 'None' ends in
\* LTC3351_APIException and makes no bus write.
C5_RawRangeError ==
    (/\ last.op = "write" /\ last.bf \in Writable
     /\ regmap[last.bf].active_format = "None"
     /\ last.arg.k = "int"
     /\ (last.arg.n < 0 \/ last.arg.n >= Pow2(regmap[last.bf].size)))
    => /\ last.res = Raise(APIException)
       /\ \A i \in 1..Len(bus) : bus[i].op # "write"

C7_TwosComplement ==
    pin.fn = "twos" =>
        LET w  == pin.bitCount
            lo == -Pow2(w - 1)
            hi == Pow2(w - 1) - 1
            c  == IF pin.signed > hi THEN hi ELSE IF pin.signed < lo THEN lo ELSE pin.signed
        IN  /\ pout.toTwos = (IF c < 0 THEN c + Pow2(w) ELSE c)
            /\ pout.fromTwos = Ok(IF pin.binary >= Pow2(w - 1)
                                  THEN pin.binary - Pow2(w) ELSE pin.binary)
            /\ (pin.signed >= lo /\ pin.signed <= hi) => pout.there = Ok(pin.signed)
            /\ pout.back = pin.binary
            /\ (w = 16 /\ pin.signed = -1) => pout.toTwos = 65535
            /\ pin.signed = 0 => pout.toTwos = 0
            /\ (w = 16 /\ pin.signed = 32768) => pout.toTwos = 32767
            /\ (w = 16 /\ pin.binary = 65535) => pout.fromTwos = Ok(-1)

\* C7 witness: 16 bits, 2^15 clamped to 2^15 - 1, and 0xFFFF read as -1.
C7_Witness ==
    /\ pin.fn = "twos" /\ pin.bitCount = 16
    /\ pin.signed = 32768 /\ pout.toTwos = 32767
    /\ pin.binary = 65535 /\ pout.fromTwos = Ok(-1)

C9_PresetPrecedence ==
    (last.op = "read" /\ bus[1].ok) =>
        LET e    == regmap[last.bf]
            x    == (bus[1].data \div Pow2(e.offset)) % Pow2(e.size)
            hits == {i \in 1..Len(e.presets) : e.presets[i][2] = x}
            sx   == IF FormatSigned(e.active_format) /\ x >= Pow2(e.size - 1)
                    THEN x - Pow2(e.size) ELSE x
        IN  IF e.read_presets_enabled /\ hits # {}
            THEN \E i \in hits :
                    /\ \A j \in hits : i <= j
                    /\ last.res = Ok(PyStr(e.presets[i][1]))
            ELSE last.res = Ok(format_function(e.active_format, sx))

\* C9 witness: ctl_cap_scale (presets large_cap 0, small_cap 1) read from
\* 0x5A5A, whose bit 3 is set, gives 'small_cap'.
C9_Witness ==
    /\ last.op = "read" /\ last.bf = "ctl_cap_scale"
    /\ mem[0] = 23130
    /\ last.res = Ok(PyStr("small_cap"))

\* C10 (disabling presets takes effect).  A read of f that directly follows
\* disable_read_presets(f), or a read of a 1-bit field that directly follows
\* disable_binary_read_presets(), and whose raw value is a preset's, returns a
\* number and not the label; one that follows enable_read_presets(f) returns
\* the label.
C10_DisableTakesEffect ==
    [][(/\ last'.op = "read" /\ bus'[1].ok
        /\ \E i \in 1..Len(regmap[last'.bf].presets) :
              regmap[last'.bf].presets[i][2]
                 = (bus'[1].data \div Pow2(regmap[last'.bf].offset))
                      % Pow2(regmap[last'.bf].size))
       => /\ (last.op = "disable_read_presets" /\ last.bf = last'.bf)
                => last'.res.ok /\ last'.res.v.k # "str"
          /\ (last.op = "disable_binary_read_presets" /\ regmap[last'.bf].size = 1)
                => last'.res.ok /\ last'.res.v.k # "str"
          /\ (last.op = "enable_read_presets" /\ last.bf = last'.bf /\ last.arg = TRUE)
                => last'.res.ok /\ last'.res.v.k = "str"]_vars

\* C11 (preset on write).  When the value written to a writable field is one
\* of the field's preset labels, the raw value of the first preset so named is
\* what is packed and put on the bus, whatever the active format (no inverse
\* transform, no signed conversion, no clamping), and the call raises nothing
\* but a bus fault.
C11_PresetOnWrite ==
    (/\ last.op = "write" /\ last.bf \in Writable
     /\ last.arg.k = "str"
     /\ FirstPreset(regmap[last.bf].presets, 1, last.arg.s) # 0)
    => LET e   == regmap[last.bf]
           raw == e.presets[FirstPreset(e.presets, 1, last.arg.s)][2]
       IN  /\ _unformat(regmap, last.bf, last.arg) = Ok(raw)
           /\ last.res.ok \/ last.res = Raise(BusError)
           /\ last.res.ok =>
                 /\ bus[Len(bus)].op = "write"
                 /\ _extract(bus[Len(bus)].data, e.size, e.offset) = raw
                 /\ _extract(mem[e.command_code], e.size, e.offset) = raw

\* C11 witness: 'small_cap' written to ctl_cap_scale while the signed
\* cell_format is forced on it sets bit 3 of register 0 (0xA5A5 -> 0xA5AD).
C11_Witness ==
    /\ last.op = "write" /\ last.bf = "ctl_cap_scale"
    /\ last.arg = PyStr("small_cap")
    /\ regmap["ctl_cap_scale"].active_format = "cell_format"
    /\ last.res.ok
    /\ mem0[0] = 42405 /\ mem[0] = 42413

C18_PartialSuccess ==
    last.op = "get_status" =>
        /\ \A f \in Fields :
              Cardinality({i \in 1..Len(bus) :
                  bus[i].op = "read" /\ bus[i].cmd = regmap[f].command_code})
              = Cardinality({g \in Fields : regmap[g].command_code = regmap[f].command_code})
        /\ last.res.ok
        /\ last.res.v.k = "dict"
        /\ \A i \in 1..Len(bus) : bus[i].ok =>
              \E f \in DOMAIN last.res.v.d : regmap[f].command_code = bus[i].cmd
        /\ Cardinality(DOMAIN last.res.v.d)
              = Cardinality({i \in 1..Len(bus) : bus[i].ok})

\* C13 (checksum).  _pec of a byte list is the CRC-8 of the list computed
\* with an 8-bit register (initial value 0, polynomial 0x07, most significant
\* bit first, eight shifts per byte); it is within 0..255; computing it again
\* gives the same; inverting any one bit of any one byte changes it; and the
\* bytes 0x12, 0x34 give 0xF1.
C13_PecIsCrc8 ==
    pin.fn = "_pec" =>
        LET RECURSIVE Shift8(_, _)
            Shift8(reg, n) ==
                IF n = 0 THEN reg
                ELSE Shift8(IF reg >= 128
                            THEN BitXor((2 * reg) % 256, 7)
                            ELSE (2 * reg) % 256, n - 1)
            RECURSIVE Crc8(_, _)
            Crc8(reg, bytes) ==
                IF bytes = << >> THEN reg
                ELSE Crc8(Shift8(BitXor(reg, Head(bytes)), 8), Tail(bytes))
        IN  /\ pout.crc = Crc8(0, pin.bytes)
            /\ pout.crc \in 0..255
            /\ pout.again = pout.crc
            /\ pin.pos > 0 => pout.flipped # pout.crc
            /\ pin.bytes = <<18, 52>> => pout.crc = 241

\* C13 witness: the bytes 0x12, 0x34 with bit 7 of the second inverted.
C13_Witness ==
    /\ pin.fn = "_pec" /\ pin.bytes = <<18, 52>> /\ pin.pos = 2 /\ pin.bit = 7
    /\ pout.crc = 241
    /\ pout.flipped # 241

\* The bytes a transport call transmits before any checksum, and the number
\* of response characters it asks the port for.
Transmitted ==
    CASE pin.fn \in {"read_word", "read_byte"} ->
            <<_write_addr(pin.addr_7bit), pin.command_code, _read_addr(pin.addr_7bit)>>
      [] pin.fn \in {"receive_byte", "alert_response"} -> <<_read_addr(pin.addr_7bit)>>
      [] pin.fn = "write_word" ->
            <<_write_addr(pin.addr_7bit), pin.command_code,
              pin.data % 256, pin.data \div 256>>
      [] pin.fn = "write_byte" -> <<_write_addr(pin.addr_7bit), pin.command_code, pin.data>>
      [] pin.fn = "send_byte" -> <<_write_addr(pin.addr_7bit), pin.data>>

Expected ==
    CASE pin.fn = "read_word" -> IF pin.pec THEN 6 ELSE 4
      [] pin.fn \in {"read_byte", "receive_byte", "alert_response"} ->
            IF pin.pec THEN 4 ELSE 2
      [] OTHER -> 0

\* The response's last byte is the checksum of the bytes sent followed by the
\* data bytes returned.
ChecksumMatches ==
    LET r == pout.ret_str
        n == Expected
    IN  /\ Len(r) = n
        /\ \A i \in 1..n : IsHex(r[i])
        /\ 16 * HexVal(r[n - 1]) + HexVal(r[n])
              = _pec(Transmitted
                     \o [i \in 1..((n \div 2) - 1) |->
                            16 * HexVal(r[2 * i - 1]) + HexVal(r[2 * i])])

\* C14 (checked mode).  In checked mode every write primitive transmits the
\* bytes of the transaction followed by their checksum as the last byte;
\* every read primitive (read word, read byte, receive byte) reads one byte
\* more than in unchecked mode and ends in the PEC-mismatch error whenever
\* that byte differs from the checksum of the bytes sent followed by the data
\* returned; and a full-length response is classified as not acknowledged or
\* bridge off line only after its checksum was found right.
C14_CheckedMode ==
    (pin.fn # "none" /\ pin.pec) =>
        LET w == pout.writes[1]
            sent == Transmitted
        IN  /\ pin.fn \in {"write_word", "write_byte", "send_byte"} =>
                  /\ Len(w) = 3 * (Len(sent) + 1) + 2
                  /\ \A i \in 1..Len(sent) : SubSeq(w, 3 * i - 1, 3 * i + 1) = S(sent[i])
                  /\ SubSeq(w, Len(w) - 3, Len(w) - 1) = S(_pec(sent))
            /\ (pin.fn \in {"read_word", "read_byte", "receive_byte"}
                /\ Len(pin.ch.rx) >= Expected) =>
                  /\ Len(pout.ret_str) = Expected
                  /\ ~ChecksumMatches => pout.res = Raise(FailedPEC)
                  /\ pout.res \in {Raise(FailedAcknowledge), Raise(DetectionFailed)}
                        => ChecksumMatches

\* C15 (sentinels).  For read word, read byte and receive byte, checked or
\* not, a full-length response with the character 'N' in it ends in the
\* not-acknowledged error, and one with the character 'X' (and no 'N') in it
\* ends in the bridge-off-line error.
C15_SentinelsClassified ==
    (pin.fn \in {"read_word", "read_byte", "receive_byte"}
     /\ Len(pout.ret_str) = Expected) =>
        /\ Has(pout.ret_str, "N") => pout.res = Raise(FailedAcknowledge)
        /\ (Has(pout.ret_str, "X") /\ ~Has(pout.ret_str, "N"))
              => pout.res = Raise(DetectionFailed)

\* C16 (desynchronisation).  For every transport primitive, the alert
\* response included: when more characters than the expected response are in
\* the port as the response is examined the call raises, and no call that
\* read and dropped extra characters returns.
C16_DesyncNeverHidden ==
    pin.fn # "none" =>
        /\ Len(pin.ch.rx) > Expected => ~pout.res.ok
        /\ pout.ret_extra # << >> => ~pout.res.ok

Holds(word, bf_name) == _extract(word, regmap[bf_name].size, regmap[bf_name].offset)

\* C19 (lost update).  Two callers each write a different sub-word field of
\* the same register.  When both reads come before either write, both read
\* the same contents and the register ends as the second write alone would
\* have left it: the first writer's field holds what it held before, not what
\* was written.  When one call ends before the other begins, both fields hold
\* what was written.  A write through the register-wide field is one bus
\* write and no read, after which the register holds the written word, each
\* field in it included.
C19_LostUpdate ==
    LET n == Len(bus)
    IN  /\ \A a \in Writers : \A b \in Writers \ {a} :
              (/\ n = 4
               /\ thr[a].pc = "done" /\ thr[b].pc = "done"
               /\ thr[a].bf \in SubWordFields /\ thr[b].bf \in SubWordFields
               /\ thr[a].bf # thr[b].bf
               /\ bus[4] = BusBy(b, BusWrite(0, bus[4].data, TRUE)))
              => IF bus[1].op = "read" /\ bus[2].op = "read"
                 THEN /\ bus[3] = BusBy(a, BusWrite(0, bus[3].data, TRUE))
                      /\ thr[a].old = thr[b].old
                      /\ mem[0] = _pack(thr[b].raw, regmap[thr[b].bf].size,
                                        regmap[thr[b].bf].offset, mem0[0]).v
                      /\ Holds(mem[0], thr[a].bf) = Holds(mem0[0], thr[a].bf)
                      /\ Holds(mem[0], thr[b].bf) = thr[b].raw
                 ELSE /\ bus[2] = BusBy(a, BusWrite(0, bus[2].data, TRUE))
                      /\ thr[b].old = bus[2].data
                      /\ Holds(mem[0], thr[a].bf) = thr[a].raw
                      /\ Holds(mem[0], thr[b].bf) = thr[b].raw
        /\ \A w \in Writers :
              (n > 0 /\ bus[n].by = w /\ thr[w].bf \in RaceFields \ SubWordFields) =>
                  /\ bus[n] = BusBy(w, BusWrite(0, thr[w].raw, TRUE))
                  /\ Cardinality({i \in 1..n : bus[i].by = w}) = 1
                  /\ mem[0] = thr[w].raw
                  /\ \A f \in SubWordFields : Holds(mem[0], f) = Holds(thr[w].raw, f)

\* C19 witness: the register holds 0xA5A5; A sets ctl_cap_scale, B clears
\* ctl_hotswap_disable; both read, then A writes, then B writes.  The
\* register ends as 0xA585: ctl_cap_scale is still 0.
C19_Witness ==
    /\ mem0[0] = 42405
    /\ thr["A"] = [pc |-> "done", bf |-> "ctl_cap_scale", data |-> PyInt(1),
                   raw |-> 1, old |-> 42405]
    /\ thr["B"] = [pc |-> "done", bf |-> "ctl_hotswap_disable", data |-> PyInt(0),
                   raw |-> 0, old |-> 42405]
    /\ Len(bus) = 4
    /\ bus[1].op = "read" /\ bus[2].op = "read"
    /\ bus[3].by = "A" /\ bus[4].by = "B"
    /\ mem[0] = 42373
    /\ Holds(mem[0], "ctl_cap_scale") = 0

\* C20 (no retry).  Every transport primitive writes exactly one framed
\* request ('s' ... 'p') to the port per call, however the call ends.  A
\* field read makes exactly one read_word call; a field write makes at most
\* one read_word and at most one write_word call.  A transport call that
\* raises is the last one the field access makes, and the field access ends
\* in that same exception; so after a failed read of a read-modify-write no
\* write_word call is made.
C20_NoRetry ==
    /\ pin.fn \notin {"none", "field_read", "field_write"} =>
          /\ Len(pout.writes) = 1
          /\ Head(pout.writes[1]) = "s"
          /\ pout.writes[1][Len(pout.writes[1])] = "p"
    /\ pin.fn \in {"field_read", "field_write"} =>
          LET c == pout.calls
              Count(fn) == Cardinality({i \in 1..Len(c) : c[i].fn = fn})
          IN  /\ \A i \in 1..Len(c) :
                    /\ Len(c[i].end.writes) = 1
                    /\ Head(c[i].end.writes[1]) = "s"
                    /\ c[i].end.writes[1][Len(c[i].end.writes[1])] = "p"
                    /\ ~c[i].end.res.ok => (i = Len(c) /\ last.res = c[i].end.res)
              /\ Count("read_word") <= 1
              /\ Count("write_word") <= 1
              /\ Len(bus) = Len(c)
              /\ pin.fn = "field_read" => (Count("read_word") = 1 /\ Count("write_word") = 0)
              /\ (Len(c) > 0 /\ c[1].fn = "read_word" /\ ~c[1].end.res.ok)
                    => (Count("write_word") = 0 /\ mem = mem0)

\* C20 witness: the read of a read-modify-write of ctl_cap_scale is not
\* acknowledged; the assignment raises that error and nothing is written.
C20_Witness ==
    /\ pin.fn = "field_write" /\ pin.bf = "ctl_cap_scale"
    /\ Len(pout.calls) = 1
    /\ pout.calls[1].fn = "read_word"
    /\ pout.calls[1].end.res = Raise(FailedAcknowledge)
    /\ last.res = Raise(FailedAcknowledge)
    /\ mem = mem0

\* What the field access in `last`, made by chip i, has to be when i works
\* on the register map rm and the registry of the class.
AccessUses(i, rm) ==
    LET e == rm[last.bf]
        before == IF bus = << >> THEN mem ELSE [mem EXCEPT ![e.command_code] = bus[1].data]
    IN  IF last.op = "read"
        THEN bus = _read_bf(rm, before, last.bf, IF bus[1].ok THEN "none" ELSE "read").bus
             /\ last.res = _read_bf(rm, before, last.bf,
                                    IF bus[1].ok THEN "none" ELSE "read").res
        ELSE IF last.bf \in Writable
             THEN /\ last.res = _write_bf(rm, before, last.bf, last.arg, "none").res
                  /\ bus = _write_bf(rm, before, last.bf, last.arg, "none").bus
             ELSE last.res = Raise(APIException)

\* C21: the administrative state belongs to the class.  When one instance has
\* called set_active_format, disable_presets_and_formats or set_constant and
\* another instance then reads or writes a field, the map, the constants and
\* the registry that other instance works on show the change and its access
\* is computed from them; no instance holds a copy of its own.
C21_SharedAdminState ==
    (pin.fn = "call" /\ nops >= 2 /\ pout.chip # pin.chip
       /\ last.op \in {"read", "write"} /\ pout.call.res.ok
       /\ pout.call.op \in {"set_active_format", "disable_presets_and_formats",
                            "set_constant"})
    => LET j  == pin.chip
           rm == Bound(j, "_register_map", regmap)
           c  == Bound(j, "_constants", consts)
           fm == Bound(j, "_formatters", formatters)
           p  == pout.call
       IN  /\ \A i \in Chips : DOMAIN chips[i] = InstanceAttrs
           /\ rm = regmap /\ c = consts /\ fm = formatters
           /\ p.op = "set_active_format" =>
                 rm[p.bf].active_format =
                    (IF p.arg[1] = NoneArg \/ Lower(p.arg[1]) = "none"
                     THEN "None" ELSE p.arg[1])
           /\ p.op = "disable_presets_and_formats" =>
                 \A f \in Fields : rm[f].presets = << >> /\ rm[f].active_format = "None"
           /\ p.op = "set_constant" =>
                 c[p.bf] = p.arg.n /\ fm = XmlFormatsWith(c)
           /\ AccessUses(j, rm)

\* chip1 selects cap_zs_format for meas_cap; chip2 then reads meas_cap and
\* receives the raw count as the float that format produces.
C21_Witness ==
    /\ pin.fn = "call" /\ nops >= 2
    /\ pin.chip = "chip2" /\ pout.chip = "chip1"
    /\ pout.call.op = "set_active_format" /\ pout.call.bf = "meas_cap"
    /\ pout.call.arg = <<"cap_zs_format", FALSE>>
    /\ last.op = "read" /\ last.bf = "meas_cap"
    /\ last.res.ok /\ last.res.v.k = "float"
    /\ RegisterMapDecl["meas_cap"].active_format # "cap_zs_format"

\* C22: every transport call ends in one outcome, a value or one error.  A
\* read primitive handed fewer characters than it asked for, none included,
\* ends in the short-response error and in no value.  Unchecked read word and
\* read byte classify a full-length response in this order: an 'N' in it is
\* not-acknowledged; else an 'X' in it is bridge-off-line; else characters
\* still waiting in the port are a long response; else the parsed value.
C22_OneOutcome ==
    pin.fn # "none" =>
        /\ \/ pout.res.ok /\ DOMAIN pout.res = {"ok", "v"}
           \/ /\ ~pout.res.ok /\ DOMAIN pout.res = {"ok", "err"}
              /\ pout.res.err \in {ShortResponse, FailedAcknowledge, DetectionFailed,
                                   LongResponse, FailedPEC, UnexpectedResponse,
                                   ValueError}
        /\ (Expected > 0 /\ Len(pin.ch.rx) < Expected) =>
              pout.res = Raise(ShortResponse)
        /\ (pin.fn \in {"read_word", "read_byte"} /\ ~pin.pec
            /\ Len(pin.ch.rx) >= Expected) =>
              LET r == Take(pin.ch.rx, Expected)
              IN  /\ pout.ret_str = r
                  /\ pout.res = IF Has(r, "N") THEN Raise(FailedAcknowledge)
                                ELSE IF Has(r, "X") THEN Raise(DetectionFailed)
                                ELSE IF Len(pin.ch.rx) > Expected THEN Raise(LongResponse)
                                ELSE IF \A i \in 1..Expected : IsHex(r[i])
                                     THEN pout.res
                                     ELSE Raise(ValueError)
                  /\ (~Has(r, "N") /\ ~Has(r, "X") /\ Len(pin.ch.rx) = Expected
                      /\ \A i \in 1..Expected : IsHex(r[i])) => pout.res.ok

\* An unchecked read word whose four characters hold both an 'X' and, after
\* it, an 'N', with more characters waiting: not acknowledged.
C22_Witness ==
    /\ pin.fn = "read_word" /\ ~pin.pec
    /\ Len(pin.ch.rx) > 4
    /\ \E i \in 1..4 : \E k \in 1..4 :
          i < k /\ pout.ret_str[i] = "X" /\ pout.ret_str[k] = "N"
    /\ pout.res = Raise(FailedAcknowledge)

\* C23: a word travels low byte first and is not changed by the split.  Write
\* word transmits data & 0xFF and then data >> 8 after the command code; read
\* word takes the first byte of the response as the low byte and the second
\* as the high byte, so a device answering with the two bytes of a word is
\* read as that word; and _word(_low_byte(data), _high_byte(data)) is data
\* for every data of 0..65535.
C23_LittleEndian ==
    /\ pin.fn = "none" =>
          \A data \in 0..65535 : _word(_low_byte(data), _high_byte(data)) = data
    /\ pin.fn = "write_word" =>
          /\ SubSeq(pout.writes[1], 8, 10) = S(pin.data % 256)
          /\ SubSeq(pout.writes[1], 11, 13) = S(pin.data \div 256)
    /\ (pin.fn = "read_word" /\ pout.res.ok) =>
          LET r == pout.ret_str
          IN  /\ pout.res.v = PyInt((16 * HexVal(r[1]) + HexVal(r[2]))
                                    + 256 * (16 * HexVal(r[3]) + HexVal(r[4])))
              /\ Take(pin.ch.rx, 4) = _hex_str(pin.data % 256) \o _hex_str(pin.data \div 256)
                    => pout.res.v = PyInt(pin.data)

\* The response "3412" is read as 0x1234.
C23_Witness ==
    /\ pin.fn = "read_word"
    /\ Take(pout.ret_str, 4) = <<"3", "4", "1", "2">>
    /\ pout.res = Ok(PyInt(4660))

\* C24: a set_active_format(bf_name, format_name) call without force changes
\* the active format of bf_name only when format_name is None or spells
\* 'none' in any case, to 'None', or when format_name is one of the allowed
\* formats of bf_name, to that name; any other name raises
\* LTC3351_APIException and leaves the whole register map as it was.  Nothing
\* else of the map changes in either case.
C24_SetActiveFormat ==
    [][(nops' = nops + 1 /\ last'.op = "set_active_format" /\ ~last'.arg[2]) =>
          LET f == last'.bf
              name == last'.arg[1]
              none == name = NoneArg \/ name \in {"None", "none", "NONE"}
          IN  IF none
              THEN /\ last'.res = Ok(PyNone)
                   /\ regmap' = [regmap EXCEPT ![f].active_format = "None"]
              ELSE IF name \in regmap[f].allowed_formats
              THEN /\ last'.res = Ok(PyNone)
                   /\ regmap' = [regmap EXCEPT ![f].active_format = name]
              ELSE /\ last'.res = Raise(APIException)
                   /\ regmap' = regmap
                   /\ consts' = consts /\ formatters' = formatters /\ mem' = mem
                   /\ bus' = << >>]_vars

\* cell_format is refused for meas_cap, whose format stays cap_format.
C24_Witness ==
    /\ last.op = "set_active_format" /\ last.bf = "meas_cap"
    /\ last.arg = <<"cell_format", FALSE>>
    /\ last.res = Raise(APIException)
    /\ regmap["meas_cap"].active_format = "cap_format"

\* Every field of the map has no presets and the format 'None'
Cleared(rm) ==
    \A f \in Fields : rm[f].presets = << >> /\ rm[f].active_format = "None"

\* C25: once disable_presets_and_formats has cleared every field, a read
\* returns the extracted raw integer, and a write of an integer hands that
\* very integer to masking and shifting: a write that returns has put the
\* integer itself into the field of the word written, and an integer the
\* field cannot hold is not turned into another one.
C25_RawPassThrough ==
    Cleared(regmap) =>
        /\ (last.op = "read" /\ last.res.ok) =>
              last.res.v = PyInt(_extract(bus[1].data, regmap[last.bf].size,
                                          regmap[last.bf].offset))
        /\ (last.op = "write" /\ last.bf \in Writable /\ last.arg.k = "int"
            /\ last.res.ok) =>
              /\ last.arg.n >= 0
              /\ _extract(bus[Len(bus)].data, regmap[last.bf].size,
                          regmap[last.bf].offset) = last.arg.n

\* C26: whatever is written to a field and whatever integer the read before
\* the write returned, every word a field write hands to write_function is
\* an integer of 0..65535.
C26_WordsOnBus ==
    pin.fn = "_write_bf" =>
        \A i \in 1..Len(pout.bus) :
            pout.bus[i].op = "write" =>
                pout.bus[i].data >= 0 /\ pout.bus[i].data < 65536

\* The read returns 0x1A5A5 and 2, too large, is written to the one-bit
\* ctl_hotswap_disable: the word written is 0xA5A5.
C26_Witness ==
    /\ pin.fn = "_write_bf" /\ pin.bf = "ctl_hotswap_disable"
    /\ pin.old = 107941 /\ pin.data = PyInt(2)
    /\ pout.res.ok
    /\ pout.bus = <<BusRead(0, 107941, TRUE), BusWrite(0, 42405, TRUE)>>

\* C27: the administrative operations leave the keys of the register map the
\* declared field names and every entry a field descriptor.
C27_FieldNamesFixed ==
    /\ DOMAIN regmap = Fields
    /\ \A k \in DOMAIN regmap :
          DOMAIN regmap[k] = DOMAIN RegisterMapDecl[k]

\* C28: a field write that fails for a reason of its own (not a fault of the
\* bus) leaves the device as it was and hands nothing to write_function.
\* When the value cannot be converted (no preset matches and the inverse
\* transform gives no integer) no bus call is made at all; when the converted
\* value does not fit the field at most one read and no write is made.
C28_FailedWriteNoEffect ==
    (last.op = "write" /\ ~last.res.ok /\ last.res.err # BusError) =>
        /\ \A i \in 1..Len(bus) : bus[i].op # "write"
        /\ nops = 1 => mem = mem0
        /\ touched = [c \in CommandCodes |-> 0] => mem = mem0
        /\ last.res.err \in {AssertionError, TypeError} => bus = << >>
        /\ last.res.err = APIException =>
              Len(bus) <= 1 /\ \A i \in 1..Len(bus) : bus[i].op = "read"

\* A float written to a field whose format is 'None' fails the integer
\* assertion of _unformat: no bus call, register as before.
C28_Witness ==
    /\ last.op = "write" /\ last.bf \in Writable
    /\ last.arg.k = "float"
    /\ regmap[last.bf].active_format = "None"
    /\ last.res = Raise(AssertionError)
    /\ bus = << >> /\ mem = mem0

\* C29: two writes to different sub-word fields of one register, the second
\* starting after the first has ended, commute.  The register ends as the
\* two writes made in the other order from the same starting contents would
\* have left it, and in it each field holds what was written to it.
C29_WritesCommute ==
    \A a \in Writers : \A b \in Writers \ {a} :
        (/\ thr[a].pc = "done" /\ thr[b].pc = "done"
         /\ thr[a].bf \in SubWordFields /\ thr[b].bf \in SubWordFields
         /\ thr[a].bf # thr[b].bf
         /\ Len(bus) = 4
         /\ bus[1].by = a /\ bus[1].op = "read" /\ bus[2].by = a /\ bus[2].op = "write"
         /\ bus[3].by = b /\ bus[3].op = "read" /\ bus[4].by = b /\ bus[4].op = "write")
        => LET ea == regmap[thr[a].bf]
               eb == regmap[thr[b].bf]
               c  == ea.command_code
               b_first == _pack(thr[b].raw, eb.size, eb.offset, mem0[c])
               then_a  == _pack(thr[a].raw, ea.size, ea.offset, b_first.v)
           IN  /\ b_first.ok /\ then_a.ok
               /\ mem[c] = then_a.v
               /\ Holds(mem[c], thr[a].bf) = thr[a].raw
               /\ Holds(mem[c], thr[b].bf) = thr[b].raw

\* From 0xA5A5: A clears ctl_start_cap_esr_meas, then B sets
\* ctl_hotswap_disable by hand; the register ends as 0xA5A4.
C29_Witness ==
    /\ thr["A"].pc = "done" /\ thr["B"].pc = "done"
    /\ thr["A"].bf = "ctl_start_cap_esr_meas" /\ thr["A"].raw = 0
    /\ thr["B"].bf = "ctl_hotswap_disable" /\ thr["B"].raw = 1
    /\ Len(bus) = 4
    /\ bus[2].by = "A" /\ bus[2].op = "write"
    /\ bus[3].by = "B" /\ bus[3].op = "read" /\ bus[3].data = bus[2].data
    /\ mem0[0] = 42405
    /\ mem[0] = 42404

\* C30: reading has no write effect.  A read of a field and a get_status call
\* hand nothing to write_function and leave the register map, the constants,
\* the format registry and the device registers as they were.
C30_ReadsOnlyRead ==
    [][(nops' = nops + 1 /\ last'.op \in {"read", "get_status"}) =>
          /\ \A i \in 1..Len(bus') : bus'[i].op = "read"
          /\ regmap' = regmap
          /\ consts' = consts
          /\ formatters' = formatters
          /\ mem' = mem
          /\ chips' = chips]_vars

\* chip2 reads meas_cap after chip1 changed a constant: one bus read, and the
\* constant and the registry built from it are still in place.
C30_Witness ==
    /\ pin.fn = "call" /\ nops >= 2
    /\ pout.call.op = "set_constant" /\ pout.call.arg = PyInt(0)
    /\ last.op = "read" /\ last.bf = "meas_cap" /\ last.res.ok
    /\ Len(bus) = 1 /\ bus[1].op = "read"
    /\ consts.CTL_CAP_SCALE_VALUE = 0
    /\ formatters = XmlFormatsWith(consts)
    /\ formatters # XmlFormats
    /\ regmap = RegisterMapDecl
====
